---- MODULE Spec2Model ----
(***************************************************************************)
(* Reconciliation controller of client-go2 (package controller):           *)
(* the work-queue driven loop, the differ and the conflict-safe persister, *)
(* the error taxonomy, and the collaborators they rest on (rate-limiting   *)
(* work queue, typed client over an optimistic-concurrency store).         *)
(***************************************************************************)
EXTENDS Integers, Sequences, FiniteSets, TLC

(***************************************************************************)
(* Bounds of the model and program constants.                              *)
(***************************************************************************)
\* Depth of nested calls after which the goroutine stack is exhausted.
MaxStackDepth == 3
\* Largest per-key failure count the rate limiter is driven to.
MaxFailures == 12
\* Largest Options.Concurrency of the configurations explored.
MaxConcurrency == 2
\* retry.DefaultBackoff.Steps: attempts of one fetch-merge-write.
RetrySteps == 4
\* Writes other clients of the store make in one behaviour.
MaxExtWrites == 4
\* Longest error chain built for the classifiers.
MaxChain == 3
\* The hard-coded retry ceiling of handleProcessError.
RetryCeiling == 10

Keys == {"ns/a", "ns/b"}
NoKey == ""
Workers == 1..MaxConcurrency

(***************************************************************************)
(* Error values.  An error is the chain errors.Unwrap walks, outermost     *)
(* first; nil is the empty chain.  Links: "wrap" (fmt.Errorf with %w),     *)
(* "permanent" (a permanentError), and the leaves "after" (a requeueAfter, *)
(* with its duration), "immediate" (a requeueImmediately), "ordinary"      *)
(* (errors.New and client errors), "conflict" (a 409 from the store),      *)
(* "canceled" (context.Canceled).                                          *)
(***************************************************************************)
Nil == <<>>
Link(t, d) == [t |-> t, d |-> d]
Durations == {0, 1}

RequeueAfter(d) == <<Link("after", d)>>
RequeueImmediately == <<Link("immediate", 0)>>
PermanentError(e) == IF e = Nil THEN Nil ELSE <<Link("permanent", 0)>> \o e
Ordinary == <<Link("ordinary", 0)>>
Conflict == <<Link("conflict", 0)>>
\* The 404 of the store for an object that does not exist.
NotFound == <<Link("notfound", 0)>>
\* What a request of the REST client returns once its context is done.
Canceled == <<Link("canceled", 0)>>
Errorf(e) == <<Link("wrap", 0)>> \o e

\* &requeueImmediately{} points to a zero-size variable: every escaping
\* zero-size allocation of the gc runtime is the address of runtime.zerobase,
\* so the error returned by RequeueImmediately() and the fresh target compare
\* equal.  Pointers to the other (non-empty) error structs are distinct
\* allocations.
ZeroSizePointersEqual == TRUE

\* err == target of errors.Is, target being a freshly allocated sentinel.
SamePointer(link, target) ==
    /\ target # Nil
    /\ link.t = "immediate"
    /\ target[1].t = "immediate"
    /\ ZeroSizePointersEqual

\* errors.Is(err, target) for a freshly allocated target.  The result is
\* "true", "false" or "overflow": permanentError.Is calls errors.Is again
\* on its argument with a new &permanentError{} target, and depth counts
\* those nested calls.
RECURSIVE errorsIs(_, _, _)
permanentErrorIs(target, depth) ==
    errorsIs(target, <<Link("permanent", 0)>>, depth + 1)

RECURSIVE isLoop(_, _, _, _)
isLoop(err, i, target, depth) ==
    IF i > Len(err) THEN "false"
    ELSE IF SamePointer(err[i], target) THEN "true"
    ELSE IF err[i].t = "permanent"
         THEN LET r == permanentErrorIs(target, depth)
              IN  IF r = "false" THEN isLoop(err, i + 1, target, depth) ELSE r
    ELSE isLoop(err, i + 1, target, depth)

errorsIs(err, target, depth) ==
    IF depth > MaxStackDepth THEN "overflow"
    ELSE IF err = Nil \/ target = Nil
         THEN (IF err = target THEN "true" ELSE "false")
    ELSE isLoop(err, 1, target, depth)

IsPermanentError(err) == errorsIs(err, <<Link("permanent", 0)>>, 0)

Or3(a, b) ==
    IF a = "overflow" THEN "overflow"
    ELSE IF a = "true" THEN "true"
    ELSE b

IsRequeueError(err) ==
    Or3(errorsIs(err, RequeueAfter(0), 0), errorsIs(err, RequeueImmediately, 0))

\* errors.As(err, &ra) into a requeueAfter pointer: the first link of that type.
RECURSIVE asRequeueAfter(_, _)
asRequeueAfter(err, i) ==
    IF i > Len(err) THEN 0
    ELSE IF err[i].t = "after" THEN i
    ELSE asRequeueAfter(err, i + 1)

GetRequeueDuration(err) ==
    LET i == asRequeueAfter(err, 1)
    IN  IF i = 0 THEN 0 ELSE err[i].d

\* errors.Unwrap: the Unwrap method of a permanentError and of the error
\* fmt.Errorf builds with %w; the other errors have none.
Unwrap(err) ==
    IF err = Nil THEN Nil
    ELSE IF err[1].t \in {"permanent", "wrap"} THEN Tail(err)
    ELSE Nil

\* Mutant: every error is retriable.
IsConflictAny(err) == err # Nil

\* apierrors.IsConflict, the retriable test of retry.RetryOnConflict.
IsConflict(err) == \E i \in 1..Len(err) : err[i].t = "conflict"

(***************************************************************************)
(* The work queue: workqueue.NewTypedRateLimitingQueue over                *)
(* DefaultTypedControllerRateLimiter.  items is the FIFO of keys ready for *)
(* Get, dirty the keys that need processing, processing the keys handed to *)
(* a worker and not yet Done, waiting the keys a delayed add holds back,   *)
(* failures the per-key count of the exponential failure rate limiter.     *)
(***************************************************************************)
EmptyQueue ==
    [items |-> <<>>, dirty |-> {}, processing |-> {}, waiting |-> {},
     failures |-> [k \in Keys |-> 0], shuttingDown |-> FALSE]

\* Mutant: a key is appended whether or not it is marked dirty.
AddAlways(q, k) ==
    IF q.shuttingDown THEN q
    ELSE IF k \in q.processing THEN [q EXCEPT !.dirty = @ \cup {k}]
    ELSE [q EXCEPT !.dirty = @ \cup {k}, !.items = Append(@, k)]

Add(q, k) ==
    IF q.shuttingDown \/ k \in q.dirty THEN q
    ELSE IF k \in q.processing THEN [q EXCEPT !.dirty = @ \cup {k}]
    ELSE [q EXCEPT !.dirty = @ \cup {k}, !.items = Append(@, k)]

\* The state of the queue after Get returned Head(q.items).
Get(q) ==
    [q EXCEPT !.items = Tail(@),
              !.processing = @ \cup {Head(q.items)},
              !.dirty = @ \ {Head(q.items)}]

\* Mutant: Done forgets that the key was added while it was processed.
DoneDropsDirty(q, k) == [q EXCEPT !.processing = @ \ {k}]

Done(q, k) ==
    IF k \in q.dirty
    THEN [q EXCEPT !.processing = @ \ {k}, !.items = Append(@, k)]
    ELSE [q EXCEPT !.processing = @ \ {k}]

\* Mutant: a delayed add is dropped.
AddAfterDropped(q, k, d) ==
    IF q.shuttingDown THEN q
    ELSE IF d <= 0 THEN Add(q, k)
    ELSE q

AddAfter(q, k, d) ==
    IF q.shuttingDown THEN q
    ELSE IF d <= 0 THEN Add(q, k)
    ELSE [q EXCEPT !.waiting = @ \cup {k}]

\* rateLimiter.When(k) counts one more failure of k and returns a positive
\* delay.
AddRateLimited(q, k) ==
    AddAfter([q EXCEPT !.failures[k] = @ + 1], k, 1)

Forget(q, k) == [q EXCEPT !.failures[k] = 0]

NumRequeues(q, k) == q.failures[k]

ShutDown(q) == [q EXCEPT !.shuttingDown = TRUE]

(***************************************************************************)
(* Resources.  spec, status and the three metadata fields the persister    *)
(* writes.  annotations and labels are maps (functions on the keys they    *)
(* hold), finalizers a list; del is the deletion marker (a non-nil         *)
(* DeletionTimestamp).                                                     *)
(***************************************************************************)
EmptyMap == [x \in {} |-> ""]

NewObject ==
    [spec |-> "s0", status |-> "", fin |-> <<>>, ann |-> EmptyMap,
     lab |-> EmptyMap, del |-> FALSE]

\* No object: the zero T a failed Get returns, a worker's locals outside a
\* cycle, and what the store holds for a key whose object is gone.
NoObject ==
    [spec |-> "", status |-> "", fin |-> <<>>, ann |-> EmptyMap,
     lab |-> EmptyMap, del |-> FALSE]

MapSet(m, x, v) == [y \in DOMAIN m \cup {x} |-> IF y = x THEN v ELSE m[y]]
MapDelete(m, x) == [y \in DOMAIN m \ {x} |-> m[y]]
\* for k, v := range from { to[k] = v }
MapMerge(to, from) ==
    [y \in DOMAIN to \cup DOMAIN from |-> IF y \in DOMAIN from THEN from[y] ELSE to[y]]

Contains(list, x) == \E i \in 1..Len(list) : list[i] = x
Remove(list, x) == SelectSeq(list, LAMBDA y : y # x)

\* What a reconciler does to the object it is given, one named edit at a
\* time; a reconciler applies a set of them.
Edits ==
    {"spec", "status", "ann", "annDel", "lab", "finAdd", "finDel", "finalizer"}

\* The finalizer reconciler: remove F from an object that is being deleted,
\* add it to one that is not and does not have it.
Finalize(fin, del) ==
    IF del THEN Remove(fin, "F")
    ELSE IF Contains(fin, "F") THEN fin
    ELSE Append(fin, "F")

ApplyEdits(obj, es) ==
    [spec   |-> IF "spec" \in es THEN "sLocal" ELSE obj.spec,
     status |-> IF "status" \in es THEN "ready" ELSE obj.status,
     ann    |-> IF "ann" \in es THEN MapSet(obj.ann, "own", "1")
                ELSE IF "annDel" \in es THEN MapDelete(obj.ann, "own")
                ELSE obj.ann,
     lab    |-> IF "lab" \in es THEN MapSet(obj.lab, "own", "1") ELSE obj.lab,
     fin    |-> IF "finAdd" \in es /\ ~Contains(obj.fin, "F")
                THEN Append(obj.fin, "F")
                ELSE IF "finDel" \in es THEN Remove(obj.fin, "F")
                ELSE IF "finalizer" \in es THEN Finalize(obj.fin, obj.del)
                ELSE obj.fin,
     del    |-> obj.del]

\* The differ of updateIfNeeded.
specChanged(original, current) == original.spec # current.spec
statusChanged(original, current) == original.status # current.status
\* Mutant: only the finalizers are compared.
metadataChangedFinalizersOnly(original, current) ==
    original.fin # current.fin

metadataChanged(original, current) ==
    \/ original.fin # current.fin
    \/ original.ann # current.ann
    \/ original.lab # current.lab

\* Mutant: the finalizers of the latest copy are kept.
mergeMetadataKeepFinalizers(latest, current) ==
    [latest EXCEPT !.ann = MapMerge(latest.ann, current.ann),
                   !.lab = MapMerge(latest.lab, current.lab)]

\* Mutant: the closure writes the reconciled object itself.
mergeMetadataWholeObject(latest, current) == current

\* Mutant: on a key both maps hold, the latest copy's value stays.
mergeMetadataLatestWins(latest, current) ==
    [latest EXCEPT !.fin = current.fin,
                   !.ann = MapMerge(current.ann, latest.ann),
                   !.lab = MapMerge(current.lab, latest.lab)]

\* The merge of updateMetadataWithRetry: finalizers replaced, annotations and
\* labels copied key by key onto the latest copy.
mergeMetadata(latest, current) ==
    [latest EXCEPT !.fin = current.fin,
                   !.ann = MapMerge(latest.ann, current.ann),
                   !.lab = MapMerge(latest.lab, current.lab)]

\* Mutant: the status is written with the reconciled object, not the latest.
copyStatusOntoCurrent(current, latest) == current

\* copyStatus(current, latest).
copyStatus(current, latest) == [latest EXCEPT !.status = current.status]

\* What the store keeps of a written object: one that carries the deletion
\* marker and no finalizer is removed.
Stored(obj) == IF obj.del /\ obj.fin = <<>> THEN NoObject ELSE obj

\* Writes of other clients of the store, by zone; each changes the object.
\* "delete" is client.Delete: the object gets the deletion marker and goes
\* once it has no finalizers.  "finalizer" adds or removes the finalizer E
\* of another controller, "value" gives the annotation ext a new value.
ExternalWrite(obj, zone) ==
    IF obj = NoObject THEN obj
    ELSE IF zone = "delete" THEN Stored([obj EXCEPT !.del = TRUE])
    ELSE IF zone = "spec"
    THEN [obj EXCEPT !.spec = IF @ = "s0" THEN "s1" ELSE "s0"]
    ELSE IF zone = "status"
    THEN [obj EXCEPT !.status = IF @ = "ext" THEN "ext2" ELSE "ext"]
    ELSE IF zone = "finalizer"
    THEN [obj EXCEPT !.fin = IF Contains(@, "E") THEN Remove(@, "E")
                              ELSE Append(@, "E")]
    ELSE IF zone = "value"
    THEN [obj EXCEPT !.ann = IF "ext" \in DOMAIN @ /\ @["ext"] = "x"
                              THEN MapSet(@, "ext", "y")
                              ELSE MapSet(@, "ext", "x")]
    ELSE [obj EXCEPT !.ann = IF "ext" \in DOMAIN @ THEN MapDelete(@, "ext")
                              ELSE MapSet(@, "ext", "x")]

(***************************************************************************)
(* Owner references.  A reference has an apiVersion (a string, kept as the *)
(* sequence of its characters since it is formatted and parsed), a kind,   *)
(* the owner's name and UID and the Controller pointer ("nil", "true",     *)
(* "false").                                                               *)
(* A subordinate object has a namespace and its list of references.        *)
(***************************************************************************)
\* Longest list of owner references of a subordinate object.
MaxRefs == 2
\* Notifications the owned informer holds undelivered.
MaxEvents == 1

V1 == <<"v", "1">>
AppsV1 == <<"a", "p", "p", "s", "/", "v", "1">>
SlashV1 == <<"/", "v", "1">>
BadVersion == <<"a", "/", "b", "/", "c">>

\* A reference written without a UID, as other clients and the tests do.
OwnerRef(apiVersion, kind, name, controller) ==
    [apiVersion |-> apiVersion, kind |-> kind, name |-> name, uid |-> "",
     controller |-> controller]

\* The owner type the controller is built for: core/v1 ConfigMap.
OwnerGVK == [group |-> <<>>, version |-> V1, kind |-> "ConfigMap"]

NoSubordinate == [exists |-> FALSE, namespace |-> "", refs |-> <<>>]
Subordinate(ns, refs) == [exists |-> TRUE, namespace |-> ns, refs |-> refs]

\* schema.GroupVersion.String
GroupVersionString(gvk) ==
    IF gvk.group = <<>> /\ gvk.version = <<>> THEN <<>>
    ELSE IF Len(gvk.group) > 0 THEN gvk.group \o <<"/">> \o gvk.version
    ELSE gvk.version

\* strings.Count(s, "/") and strings.Index(s, "/")
Count(s) == Cardinality({i \in 1..Len(s) : s[i] = "/"})
Index(s) == CHOOSE i \in 1..Len(s) : s[i] = "/" /\ \A j \in 1..(i - 1) : s[j] # "/"

\* schema.ParseGroupVersion
ParseGroupVersion(s) ==
    IF s = <<>> \/ s = <<"/">>
    THEN [ok |-> TRUE, group |-> <<>>, version |-> <<>>]
    ELSE IF Count(s) = 0 THEN [ok |-> TRUE, group |-> <<>>, version |-> s]
    ELSE IF Count(s) = 1
    THEN [ok |-> TRUE, group |-> SubSeq(s, 1, Index(s) - 1),
          version |-> SubSeq(s, Index(s) + 1, Len(s))]
    ELSE [ok |-> FALSE, group |-> <<>>, version |-> <<>>]

\* isController && (ref.Controller == nil || !*ref.Controller)
SkippedByControllerFlag(isController, ref) ==
    isController /\ (ref.controller = "nil" \/ ref.controller # "true")

\* Mutant: the controller flag of a reference is not looked at.
requestsIgnoringFlag(refs, i, ownerType, isController, ns, requests) ==
    LET matching == SelectSeq(refs, LAMBDA r :
                        /\ r.apiVersion = GroupVersionString(ownerType)
                        /\ r.kind = ownerType.kind)
    IN  [j \in 1..Len(matching) |-> ns \o "/" \o matching[j].name]

\* The loop of the mapping EnqueueRequestForOwner returns, from reference i.
RECURSIVE requests(_, _, _, _, _, _)
requests(refs, i, ownerType, isController, ns, acc) ==
    IF i > Len(refs) THEN acc
    ELSE IF /\ refs[i].apiVersion = GroupVersionString(ownerType)
            /\ refs[i].kind = ownerType.kind
            /\ ~SkippedByControllerFlag(isController, refs[i])
         THEN requests(refs, i + 1, ownerType, isController, ns,
                       Append(acc, ns \o "/" \o refs[i].name))
    ELSE requests(refs, i + 1, ownerType, isController, ns, acc)

EnqueueRequestForOwner(ownerType, isController, obj) ==
    requests(obj.refs, 1, ownerType, isController, obj.namespace, <<>>)

\* The loop of enqueueOwners, from reference i: c.queue.Add(key) for each
\* reference of the owner's group, version and kind.
RECURSIVE enqueueLoop(_, _, _, _, _, _)
enqueueLoop(q, refs, i, ownerGVK, isController, ns) ==
    IF i > Len(refs) THEN q
    ELSE LET gv == ParseGroupVersion(refs[i].apiVersion)
             ownerKey == IF ns = "" THEN refs[i].name
                         ELSE ns \o "/" \o refs[i].name
         IN  IF /\ gv.ok
                /\ gv.group = ownerGVK.group
                /\ gv.version = ownerGVK.version
                /\ refs[i].kind = ownerGVK.kind
                /\ ~SkippedByControllerFlag(isController, refs[i])
             THEN enqueueLoop(Add(q, ownerKey), refs, i + 1, ownerGVK,
                              isController, ns)
             ELSE enqueueLoop(q, refs, i + 1, ownerGVK, isController, ns)

enqueueOwners(q, obj, ownerGVK, isController) ==
    enqueueLoop(q, obj.refs, 1, ownerGVK, isController, obj.namespace)

\* GetOwnerReference(owner, scheme), for an owner object with its name, its
\* UID and the kind its type is registered with in the scheme.
GetOwnerReference(owner) ==
    [apiVersion |-> GroupVersionString(owner.gvk), kind |-> owner.gvk.kind,
     name |-> owner.name, uid |-> owner.uid, controller |-> "nil"]

\* Mutant: the reference is appended whether or not the owner is there.
SetOwnerReferenceAppends(refs, owner, controller) ==
    Append(refs, [GetOwnerReference(owner) EXCEPT
                      !.controller = IF controller THEN "true" ELSE "nil"])

\* SetOwnerReference(owned, owner, scheme, controller): the references of
\* owned afterwards.
SetOwnerReference(refs, owner, controller) ==
    LET ownerRef == [GetOwnerReference(owner) EXCEPT
                         !.controller = IF controller THEN "true" ELSE "nil"]
        same == {i \in 1..Len(refs) : refs[i].uid = ownerRef.uid}
    IN  IF same # {}
        THEN LET i == CHOOSE x \in same : \A y \in same : x <= y
             IN  [refs EXCEPT ![i] = ownerRef]
        ELSE Append(refs, ownerRef)

\* RemoveOwnerReference(owned, owner)
RemoveOwnerReference(refs, owner) ==
    SelectSeq(refs, LAMBDA ref : ref.uid # owner.uid)

NoRequests ==
    [called |-> FALSE, isController |-> FALSE, obj |-> NoSubordinate,
     keys |-> <<>>]

(***************************************************************************)
(* State.                                                                  *)
(***************************************************************************)
VARIABLES
    queue,       \* the controller's work queue
    pending,     \* keys with a watch event the informer has not delivered
    store,       \* the remote store: key -> object
    extLeft,     \* writes other clients have yet to make
    concurrency, \* Controller.concurrency
    started,     \* Run has started its workers
    cancelled,   \* the context of Run is done
    run,         \* Run: its informer, and what Run returned
    fatal,       \* the process died of a fatal runtime error
    pc,          \* worker -> its position in runWorker
    key,         \* worker -> the key Get returned
    cur,         \* worker -> current, the object the reconciler edits
    chg,         \* worker -> what updateIfNeeded found changed
    latest,      \* worker -> the copy a retry closure fetched and merged
    fresh,       \* worker -> latest carries the store's resource version
    attempt,     \* worker -> attempt number within RetryOnConflict
    err,         \* worker -> the error processItem returned
    ret,         \* worker -> "none", or what the reconciler returned
    calls,       \* worker -> queue calls of the cycle, in order
    wrote,       \* worker -> write calls the cycle issued
    arg,         \* the error value a caller of the taxonomy holds
    res,         \* what the classifiers returned for arg
    owned,       \* the subordinate object in the store of owned resources
    events,      \* notifications the owned informer has yet to deliver
    watch,       \* the WatchOwned configuration of the controller
    requested    \* the call of an EnqueueRequestForOwner mapping on owned

vars == <<queue, pending, store, extLeft, concurrency, started, cancelled, run, fatal, pc,
          key, cur, chg, latest, fresh, attempt, err, ret, calls, wrote,
          arg, res, owned, events, watch, requested>>
shared == <<queue, pending, store, extLeft>>
config == <<concurrency, started, cancelled, run>>
locals == <<key, cur, chg, latest, fresh, attempt, err, ret, calls, wrote>>

probe == <<arg, res>>
owners == <<owned, events, watch, requested>>

\* No classifier has been called on arg.
NoResult ==
    [called |-> {}, permanent |-> "false", requeue |-> "false",
     duration |-> 0, unwrapped |-> Nil]

NoChange == [spec |-> FALSE, status |-> FALSE, meta |-> FALSE]

\* The state New returns, for a store holding one object per key of present,
\* each still to be announced by the informer's initial list.
InitWith(n, present) ==
    /\ queue = EmptyQueue
    /\ pending = present
    /\ store = [k \in Keys |-> NewObject]
    /\ extLeft = MaxExtWrites
    /\ concurrency = (IF n < 1 THEN 1 ELSE n)
    /\ started = FALSE
    /\ cancelled = FALSE
    /\ run = [informer |-> "starting", result |-> "none"]
    /\ fatal = FALSE
    /\ pc = [w \in Workers |-> "unstarted"]
    /\ key = [w \in Workers |-> NoKey]
    /\ cur = [w \in Workers |-> NoObject]
    /\ chg = [w \in Workers |-> NoChange]
    /\ latest = [w \in Workers |-> NoObject]
    /\ fresh = [w \in Workers |-> FALSE]
    /\ attempt = [w \in Workers |-> 0]
    /\ err = [w \in Workers |-> Nil]
    /\ ret = [w \in Workers |-> "none"]
    /\ calls = [w \in Workers |-> <<>>]
    /\ wrote = [w \in Workers |-> {}]
    /\ arg = Nil
    /\ res = NoResult
    /\ owned = NoSubordinate
    /\ events = <<>>
    /\ watch = [on |-> FALSE, isController |-> FALSE]
    /\ requested = NoRequests

(***************************************************************************)
(* Run: the informer handler, the timer of the delaying queue, the start   *)
(* of the workers.                                                         *)
(***************************************************************************)
\* OnAdd / OnUpdate / OnDelete: c.queue.Add(key).
Inform(k) ==
    /\ ~fatal
    /\ ~cancelled
    /\ run.informer # "failed"
    /\ k \in pending
    /\ pending' = pending \ {k}
    /\ queue' = Add(queue, k)
    /\ run' = [run EXCEPT !.informer = "running"]
    /\ UNCHANGED <<store, extLeft, concurrency, started, cancelled, probe, owners,
                   fatal, pc, locals>>

\* Mutant: Run returns the informer's error.
InformFailsReturned ==
    /\ ~fatal
    /\ run.informer = "starting"
    /\ run.result = "none"
    /\ run' = [informer |-> "failed", result |-> "err"]
    /\ queue' = ShutDown(queue)
    /\ UNCHANGED <<pending, store, extLeft, concurrency, started, cancelled, probe,
                   owners, fatal, pc, locals>>

\* c.client.Inform returns an error before it has delivered anything: the
\* goroutine of Run logs it, and no notification of the primary type comes.
InformFails ==
    /\ ~fatal
    /\ run.informer = "starting"
    /\ run' = [run EXCEPT !.informer = "failed"]
    /\ UNCHANGED <<shared, concurrency, started, cancelled, probe, owners, fatal,
                   pc, locals>>

\* Watching an owned type fails: Run returns the wrapped error before the
\* workers are started, and the deferred c.queue.ShutDown() runs.
WatchOwnedFails ==
    /\ ~fatal
    /\ ~started
    /\ ~watch.on
    /\ run.result = "none"
    /\ run' = [run EXCEPT !.result = "err"]
    /\ queue' = ShutDown(queue)
    /\ UNCHANGED <<pending, store, extLeft, concurrency, started, cancelled, probe,
                   owners, fatal, pc, locals>>

\* The informer's periodic resync: an update notification for an object
\* that did not change.
Resync(k) ==
    /\ ~fatal
    /\ ~cancelled
    /\ k \notin pending
    /\ pending' = pending \cup {k}
    /\ UNCHANGED <<queue, store, extLeft, config, probe, owners, fatal, pc, locals>>

\* The delaying queue's waiting loop: a delayed key becomes ready.
TimerFire(k) ==
    /\ ~fatal
    /\ k \in queue.waiting
    /\ queue' = Add([queue EXCEPT !.waiting = @ \ {k}], k)
    /\ UNCHANGED <<pending, store, extLeft, config, probe, owners, fatal, pc, locals>>

\* The caller of Run cancels ctx.
Cancel ==
    /\ ~fatal
    /\ ~cancelled
    /\ cancelled' = TRUE
    /\ UNCHANGED <<shared, concurrency, started, run, probe, owners, fatal, pc, locals>>

\* Mutant: Run returns without shutting the queue down.
RunReturnsQueueOpen ==
    /\ ~fatal
    /\ started /\ cancelled
    /\ ~queue.shuttingDown
    /\ UNCHANGED vars

\* <-ctx.Done() returns, Run returns nil and the deferred c.queue.ShutDown()
\* runs.
RunReturns ==
    /\ ~fatal
    /\ started /\ cancelled
    /\ ~queue.shuttingDown
    /\ queue' = ShutDown(queue)
    /\ run' = [run EXCEPT !.result = "nil"]
    /\ UNCHANGED <<pending, store, extLeft, concurrency, started, cancelled, probe,
                   owners, fatal, pc, locals>>

\* for i := 0; i < c.concurrency; i++ { go c.runWorker(ctx) }
StartWorkers ==
    /\ ~fatal
    /\ ~started
    /\ run.result = "none"
    /\ started' = TRUE
    /\ pc' = [w \in Workers |-> IF w <= concurrency THEN "idle" ELSE pc[w]]
    /\ UNCHANGED <<shared, concurrency, cancelled, run, probe, owners, fatal, locals>>

(***************************************************************************)
(* The store behind the typed client.  A write carries the resource        *)
(* version of the copy it was made from and is refused with a conflict     *)
(* when the object changed since: fresh[w] says that nothing did.  A write *)
(* that changes the object raises a watch event.                           *)
(***************************************************************************)
StoreWrite(k, obj) ==
    /\ store' = [store EXCEPT ![k] = Stored(obj)]
    /\ pending' = IF Stored(obj) # store[k] THEN pending \cup {k} ELSE pending
    /\ fresh' = [x \in Workers |->
                    IF key[x] = k /\ Stored(obj) # store[k] THEN FALSE
                    ELSE fresh[x]]

\* Another client writes one zone of an object.
ExtWrite(k, zone) ==
    /\ extLeft > 0
    /\ extLeft' = extLeft - 1
    /\ StoreWrite(k, ExternalWrite(store[k], zone))
    /\ UNCHANGED <<queue, config, probe, owners, fatal, pc, key, cur, chg, latest, attempt,
                   err, ret, calls, wrote>>

(***************************************************************************)
(* A worker: runWorker, processNextItem, processItem, updateIfNeeded, the  *)
(* two retry closures, handleProcessError.                                 *)
(***************************************************************************)
\* deepCopy: the JSON round trip keeps every field of the object.
deepCopy(obj) ==
    [spec |-> obj.spec, status |-> obj.status, fin |-> obj.fin,
     ann |-> obj.ann, lab |-> obj.lab, del |-> obj.del]

InCycle(w) ==
    pc[w] \in {"fetch", "metaGet", "metaPut", "statusGet", "statusPut",
               "forget", "handle", "done"}

\* Mutant: Done is called at once instead of deferred.
ProcessNextItemEarlyDone(w) ==
    /\ ~fatal
    /\ pc[w] = "idle"
    /\ queue.items # <<>>
    /\ key' = [key EXCEPT ![w] = Head(queue.items)]
    /\ queue' = Done(Get(queue), Head(queue.items))
    /\ pc' = [pc EXCEPT ![w] = "fetch"]
    /\ UNCHANGED <<pending, store, extLeft, config, probe, owners, fatal, cur, chg, latest,
                   fresh, attempt, err, ret, calls, wrote>>

\* key, quit := c.queue.Get(); defer c.queue.Done(key)
ProcessNextItem(w) ==
    /\ ~fatal
    /\ pc[w] = "idle"
    /\ queue.items # <<>> \/ queue.shuttingDown
    /\ IF queue.items # <<>>
       THEN /\ key' = [key EXCEPT ![w] = Head(queue.items)]
            /\ queue' = Get(queue)
            /\ pc' = [pc EXCEPT ![w] = "fetch"]
       ELSE /\ pc' = [pc EXCEPT ![w] = "exited"]
            /\ UNCHANGED <<key, queue>>
    /\ UNCHANGED <<pending, store, extLeft, config, probe, owners, fatal, cur, chg, latest, fresh,
                   attempt, err, ret, calls, wrote>>

\* Where updateIfNeeded goes first for the changes found.
AfterDiff(c) ==
    IF c.meta THEN "metaGet" ELSE IF c.status THEN "statusGet" ELSE "forget"

updateIfNeeded(original, current) ==
    [spec |-> specChanged(original, current),
     status |-> statusChanged(original, current),
     meta |-> metadataChanged(original, current)]

\* The errors a request made with ctx may return, errs being those of a
\* request whose context is live: Do(ctx) fails once ctx is cancelled.
ClientCall(errs) == IF cancelled THEN {Canceled} ELSE errs

\* Mutant: the Get of an object that is gone returns the zero object.
GetResultZeroObject(k, e) == e

\* What client.Get returns for key k when the client itself returns e: the
\* store answers not-found for an object that is gone.
GetResult(k, e) ==
    IF e # Nil THEN e ELSE IF store[k] = NoObject THEN NotFound ELSE Nil

\* Mutant: the reconciler's error is kept but the object is persisted first.
ProcessItemWithPersistOnError(w, getErr, edits, out) ==
    LET fetched == store[key[w]]
        current == ApplyEdits(fetched, edits)
        c == updateIfNeeded(fetched, current)
    IN  /\ getErr = Nil
        /\ err' = [err EXCEPT ![w] = out]
        /\ ret' = [ret EXCEPT ![w] = IF out = Nil THEN "nil" ELSE "err"]
        /\ cur' = [cur EXCEPT ![w] = current]
        /\ chg' = [chg EXCEPT ![w] = c]
        /\ attempt' = [attempt EXCEPT ![w] = 1]
        /\ pc' = [pc EXCEPT ![w] = AfterDiff(c)]

\* processItem up to the first write: fetch, snapshot, reconcile, diff.
\* getErr is what client.Get returns, edits and out what the reconciler
\* does to the object and returns.
ProcessItemWith(w, getErr, edits, out) ==
    LET fetched == store[key[w]]
        original == deepCopy(fetched)
        current == ApplyEdits(fetched, edits)
        c == updateIfNeeded(original, current)
    IN  IF getErr # Nil
        THEN /\ err' = [err EXCEPT ![w] = Errorf(getErr)]
             /\ pc' = [pc EXCEPT ![w] = "handle"]
             /\ UNCHANGED <<cur, chg, ret, attempt>>
        ELSE IF out # Nil
        THEN /\ err' = [err EXCEPT ![w] = out]
             /\ ret' = [ret EXCEPT ![w] = "err"]
             /\ cur' = [cur EXCEPT ![w] = current]
             /\ pc' = [pc EXCEPT ![w] = "handle"]
             /\ UNCHANGED <<chg, attempt>>
        ELSE /\ ret' = [ret EXCEPT ![w] = "nil"]
             /\ cur' = [cur EXCEPT ![w] = current]
             /\ chg' = [chg EXCEPT ![w] = c]
             /\ attempt' = [attempt EXCEPT ![w] = 1]
             /\ pc' = [pc EXCEPT ![w] = AfterDiff(c)]
             /\ UNCHANGED err

ProcessItem(w, getErrs, editSets, outcomes) ==
    /\ ~fatal
    /\ pc[w] = "fetch"
    /\ \E g \in ClientCall(getErrs), es \in editSets, out \in outcomes :
          ProcessItemWith(w, GetResult(key[w], g), es, out)
    /\ UNCHANGED <<shared, config, probe, owners, fatal, key, latest, fresh, calls, wrote>>

\* The first half of a retry closure: fetch the latest copy and merge the
\* zone into it.
FetchLatest(w, at, next, merged, getErrs) ==
    /\ ~fatal
    /\ pc[w] = at
    /\ \E g \in ClientCall(getErrs) :
          IF GetResult(key[w], g) # Nil
          THEN /\ err' = [err EXCEPT ![w] = Errorf(GetResult(key[w], g))]
               /\ pc' = [pc EXCEPT ![w] = "handle"]
               /\ UNCHANGED <<latest, fresh>>
          ELSE /\ latest' = [latest EXCEPT ![w] = merged]
               /\ fresh' = [fresh EXCEPT ![w] = TRUE]
               /\ pc' = [pc EXCEPT ![w] = next]
               /\ UNCHANGED err
    /\ UNCHANGED <<shared, config, probe, owners, fatal, key, cur, chg, attempt, ret, calls,
                   wrote>>

\* Mutant: a failed write is dropped and the cycle goes on.
WriteLatestSwallowed(w, at, again, next, call, putErrs) ==
    /\ ~fatal
    /\ pc[w] = at
    /\ wrote' = [wrote EXCEPT ![w] = @ \cup {call}]
    /\ \E p \in putErrs \cup {Nil} :
          LET r == IF p # Nil THEN p
                   ELSE IF store[key[w]] = NoObject THEN NotFound
                   ELSE IF fresh[w] THEN Nil ELSE Conflict
          IN  IF r = Nil
              THEN /\ StoreWrite(key[w], latest[w])
                   /\ attempt' = [attempt EXCEPT ![w] = 1]
                   /\ pc' = [pc EXCEPT ![w] = next]
                   /\ UNCHANGED err
              ELSE /\ attempt' = [attempt EXCEPT ![w] = 1]
                   /\ pc' = [pc EXCEPT ![w] = next]
                   /\ UNCHANGED <<store, pending, fresh, err>>
    /\ UNCHANGED <<queue, extLeft, config, probe, owners, fatal, key, cur, chg, latest, ret,
                   calls>>

\* The second half: the write, and what RetryOnConflict does with its
\* result.  A stale copy gets a conflict, the copy of an object that is
\* gone a not-found; putErrs are the other errors the client may return.
WriteLatest(w, at, again, next, call, putErrs) ==
    /\ ~fatal
    /\ pc[w] = at
    /\ wrote' = [wrote EXCEPT ![w] = @ \cup {call}]
    /\ \E p \in ClientCall(putErrs \cup {Nil}) :
          LET r == IF p # Nil THEN p
                   ELSE IF store[key[w]] = NoObject THEN NotFound
                   ELSE IF fresh[w] THEN Nil ELSE Conflict
          IN  IF r = Nil
              THEN /\ StoreWrite(key[w], latest[w])
                   /\ attempt' = [attempt EXCEPT ![w] = 1]
                   /\ pc' = [pc EXCEPT ![w] = next]
                   /\ UNCHANGED err
              ELSE IF IsConflict(r) /\ attempt[w] < RetrySteps
              THEN /\ attempt' = [attempt EXCEPT ![w] = @ + 1]
                   /\ pc' = [pc EXCEPT ![w] = again]
                   /\ UNCHANGED <<store, pending, fresh, err>>
              ELSE /\ err' = [err EXCEPT ![w] = Errorf(r)]
                   /\ pc' = [pc EXCEPT ![w] = "handle"]
                   /\ UNCHANGED <<store, pending, fresh, attempt>>
    /\ UNCHANGED <<queue, extLeft, config, probe, owners, fatal, key, cur, chg, latest, ret,
                   calls>>

UpdateMetadataGet(w, getErrs) ==
    FetchLatest(w, "metaGet", "metaPut",
                mergeMetadata(store[key[w]], cur[w]), getErrs)

UpdateMetadataPut(w, putErrs) ==
    WriteLatest(w, "metaPut", "metaGet",
                IF chg[w].status THEN "statusGet" ELSE "forget",
                "Update", putErrs)

UpdateStatusGet(w, getErrs) ==
    FetchLatest(w, "statusGet", "statusPut",
                copyStatus(cur[w], store[key[w]]), getErrs)

UpdateStatusPut(w, putErrs) ==
    WriteLatest(w, "statusPut", "statusGet", "forget", "UpdateStatus",
                putErrs)

\* Mutant: the retry ceiling is tested with <=.
handleProcessErrorOffByOne(q, k, e) ==
    LET permanent == IsPermanentError(e)
        immediate == errorsIs(e, RequeueImmediately, 0)
    IN  IF permanent = "overflow" THEN "fatal"
        ELSE IF permanent = "true" THEN "Forget"
        ELSE IF immediate = "overflow" THEN "fatal"
        ELSE IF immediate = "true" THEN "AddRateLimited"
        ELSE IF GetRequeueDuration(e) > 0 THEN "AddAfter"
        ELSE IF NumRequeues(q, k) <= RetryCeiling THEN "AddRateLimited"
        ELSE "Forget"

\* Mutant: no branch for the immediate requeue.
handleProcessErrorNoImmediate(q, k, e) ==
    LET permanent == IsPermanentError(e)
    IN  IF permanent = "overflow" THEN "fatal"
        ELSE IF permanent = "true" THEN "Forget"
        ELSE IF GetRequeueDuration(e) > 0 THEN "AddAfter"
        ELSE IF NumRequeues(q, k) < RetryCeiling THEN "AddRateLimited"
        ELSE "Forget"

\* The queue call handleProcessError makes for err, or "fatal" when the
\* classification never returns.
handleProcessError(q, k, e) ==
    LET permanent == IsPermanentError(e)
        immediate == errorsIs(e, RequeueImmediately, 0)
    IN  IF permanent = "overflow" THEN "fatal"
        ELSE IF permanent = "true" THEN "Forget"
        ELSE IF immediate = "overflow" THEN "fatal"
        ELSE IF immediate = "true" THEN "AddRateLimited"
        ELSE IF GetRequeueDuration(e) > 0 THEN "AddAfter"
        ELSE IF NumRequeues(q, k) < RetryCeiling THEN "AddRateLimited"
        ELSE "Forget"

QueueCall(q, k, e, call) ==
    IF call = "Forget" THEN Forget(q, k)
    ELSE IF call = "AddRateLimited" THEN AddRateLimited(q, k)
    ELSE IF call = "AddAfter" THEN AddAfter(q, k, GetRequeueDuration(e))
    ELSE q

\* if err := c.processItem(ctx, key); err != nil { c.handleProcessError(...) }
HandleProcessError(w) ==
    LET call == handleProcessError(queue, key[w], err[w])
    IN  /\ ~fatal
        /\ pc[w] = "handle"
        /\ call = "AddRateLimited" => queue.failures[key[w]] < MaxFailures
        /\ queue' = QueueCall(queue, key[w], err[w], call)
        /\ fatal' = (call = "fatal")
        /\ pc' = [pc EXCEPT ![w] = IF call = "fatal" THEN "fatal" ELSE "done"]
        /\ calls' = [calls EXCEPT ![w] =
                        IF call = "fatal" THEN @ ELSE Append(@, call)]
        /\ UNCHANGED <<pending, store, extLeft, config, probe, owners, key, cur, chg, latest, fresh,
                       attempt, err, ret, wrote>>

\* Mutant: the success path does not call Forget.
ForgetProcessedSkipped(w) ==
    /\ ~fatal
    /\ pc[w] = "forget"
    /\ pc' = [pc EXCEPT ![w] = "done"]
    /\ UNCHANGED <<shared, config, probe, owners, fatal, locals>>

\* processItem returned nil: c.queue.Forget(key).
ForgetProcessed(w) ==
    /\ ~fatal
    /\ pc[w] = "forget"
    /\ queue' = Forget(queue, key[w])
    /\ pc' = [pc EXCEPT ![w] = "done"]
    /\ calls' = [calls EXCEPT ![w] = Append(@, "Forget")]
    /\ UNCHANGED <<pending, store, extLeft, config, probe, owners, fatal, key, cur, chg, latest,
                   fresh, attempt, err, ret, wrote>>

\* Mutant: processNextItem returns without calling Done.
DeferredDoneSkipped(w) ==
    /\ ~fatal
    /\ pc[w] = "done"
    /\ pc' = [pc EXCEPT ![w] = "select"]
    /\ UNCHANGED <<shared, config, probe, owners, fatal, key, cur, chg, latest,
                   fresh, attempt, err, ret, calls, wrote>>

\* The deferred c.queue.Done(key) of processNextItem.
DeferredDone(w) ==
    /\ ~fatal
    /\ pc[w] = "done"
    /\ queue' = Done(queue, key[w])
    /\ pc' = [pc EXCEPT ![w] = "select"]
    /\ calls' = [calls EXCEPT ![w] = Append(@, "Done")]
    /\ UNCHANGED <<pending, store, extLeft, config, probe, owners, fatal, key, cur, chg, latest,
                   fresh, attempt, err, ret, wrote>>

\* The select of runWorker after processNextItem returned true; the locals
\* of the finished cycle go out of scope.
RunWorker(w) ==
    /\ ~fatal
    /\ pc[w] = "select"
    /\ pc' = [pc EXCEPT ![w] = IF cancelled THEN "exited" ELSE "idle"]
    /\ key' = [key EXCEPT ![w] = NoKey]
    /\ cur' = [cur EXCEPT ![w] = NoObject]
    /\ chg' = [chg EXCEPT ![w] = NoChange]
    /\ latest' = [latest EXCEPT ![w] = NoObject]
    /\ fresh' = [fresh EXCEPT ![w] = FALSE]
    /\ attempt' = [attempt EXCEPT ![w] = 0]
    /\ err' = [err EXCEPT ![w] = Nil]
    /\ ret' = [ret EXCEPT ![w] = "none"]
    /\ calls' = [calls EXCEPT ![w] = <<>>]
    /\ wrote' = [wrote EXCEPT ![w] = {}]
    /\ UNCHANGED <<shared, config, probe, owners, fatal>>

(***************************************************************************)
(* A caller of the error taxonomy: it builds an error with the             *)
(* constructors and fmt.Errorf, and calls the classifiers on it.  A call   *)
(* that exhausts the stack kills the process.                              *)
(***************************************************************************)
Sentinels ==
    {Nil, Ordinary, RequeueImmediately} \cup {RequeueAfter(d) : d \in Durations}

NewError(e) ==
    /\ ~fatal
    /\ arg' = e
    /\ res' = NoResult
    /\ UNCHANGED <<shared, config, owners, fatal, pc, locals>>

\* fmt.Errorf("...: %w", arg)
WrapError ==
    /\ ~fatal
    /\ arg # Nil
    /\ Len(arg) < MaxChain
    /\ arg' = Errorf(arg)
    /\ res' = NoResult
    /\ UNCHANGED <<shared, config, owners, fatal, pc, locals>>

\* PermanentError(arg)
WrapPermanent ==
    /\ ~fatal
    /\ Len(arg) < MaxChain
    /\ arg' = PermanentError(arg)
    /\ res' = NoResult
    /\ UNCHANGED <<shared, config, owners, fatal, pc, locals>>

Classify(name, field, value) ==
    /\ ~fatal
    /\ name \notin res.called
    /\ res' = [res EXCEPT !.called = @ \cup {name}, ![field] = value]
    /\ fatal' = (value = "overflow")
    /\ UNCHANGED <<shared, config, owners, arg, pc, locals>>

CallIsPermanentError ==
    Classify("IsPermanentError", "permanent", IsPermanentError(arg))

CallIsRequeueError ==
    Classify("IsRequeueError", "requeue", IsRequeueError(arg))

CallGetRequeueDuration ==
    /\ ~fatal
    /\ "GetRequeueDuration" \notin res.called
    /\ res' = [res EXCEPT !.called = @ \cup {"GetRequeueDuration"},
                          !.duration = GetRequeueDuration(arg)]
    /\ UNCHANGED <<shared, config, owners, fatal, arg, pc, locals>>

CallUnwrap ==
    /\ ~fatal
    /\ "Unwrap" \notin res.called
    /\ res' = [res EXCEPT !.called = @ \cup {"Unwrap"},
                          !.unwrapped = Unwrap(arg)]
    /\ UNCHANGED <<shared, config, owners, fatal, arg, pc, locals>>

(***************************************************************************)
(* Subordinate objects: the clients that create, re-parent and delete      *)
(* them, a caller of the EnqueueRequestForOwner mapping, and WatchOwned    *)
(* with its informer handler.                                              *)
(***************************************************************************)
\* The owner references other clients give a subordinate object.
Refs ==
    {OwnerRef(V1, "ConfigMap", "a", "true"),
     OwnerRef(V1, "ConfigMap", "a", "nil"),
     OwnerRef(V1, "ConfigMap", "b", "true"),
     OwnerRef(V1, "ConfigMap", "b", "false"),
     OwnerRef(AppsV1, "ConfigMap", "a", "true"),
     OwnerRef(V1, "Deployment", "b", "true"),
     OwnerRef(SlashV1, "ConfigMap", "a", "true"),
     OwnerRef(BadVersion, "ConfigMap", "b", "true")}

RefLists(refs) == UNION {[1..n -> refs] : n \in 0..MaxRefs}

Notify(type, old, new) ==
    IF watch.on THEN Append(events, [type |-> type, old |-> old, new |-> new])
    ELSE events

OwnedCreate(ns, refs) ==
    /\ ~fatal
    /\ ~owned.exists
    /\ Len(events) < MaxEvents
    /\ owned' = Subordinate(ns, refs)
    /\ events' = Notify("add", owned', owned')
    /\ requested' = NoRequests
    /\ UNCHANGED <<shared, config, fatal, pc, locals, probe, watch>>

OwnedUpdate(refs) ==
    /\ ~fatal
    /\ owned.exists
    /\ refs # owned.refs
    /\ Len(events) < MaxEvents
    /\ owned' = [owned EXCEPT !.refs = refs]
    /\ events' = Notify("update", owned, owned')
    /\ requested' = NoRequests
    /\ UNCHANGED <<shared, config, fatal, pc, locals, probe, watch>>

OwnedDelete ==
    /\ ~fatal
    /\ owned.exists
    /\ Len(events) < MaxEvents
    /\ owned' = NoSubordinate
    /\ events' = Notify("delete", owned, owned)
    /\ requested' = NoRequests
    /\ UNCHANGED <<shared, config, fatal, pc, locals, probe, watch>>

\* The owners a client links a subordinate object to: a and b, the object
\* that replaced a under its name, and an object that has no UID yet.
Owners ==
    {[name |-> o[1], uid |-> o[2], gvk |-> OwnerGVK] :
        o \in {<<"a", "uid-a">>, <<"b", "uid-b">>, <<"a", "uid-a2">>,
                <<"c", "">>}}

\* A client sets an owner on the subordinate object with SetOwnerReference.
SetOwner(owner, controller) ==
    OwnedUpdate(SetOwnerReference(owned.refs, owner, controller))

\* A client unlinks an owner with RemoveOwnerReference.
RemoveOwner(owner) ==
    OwnedUpdate(RemoveOwnerReference(owned.refs, owner))

\* requests := EnqueueRequestForOwner(OwnerGVK, isController)(obj)
CallEnqueueRequestForOwner(isController) ==
    /\ ~fatal
    /\ owned.exists
    /\ requested' =
           [called |-> TRUE, isController |-> isController, obj |-> owned,
            keys |-> EnqueueRequestForOwner(OwnerGVK, isController, owned)]
    /\ UNCHANGED <<shared, config, fatal, pc, locals, probe, owned, events,
                   watch>>

\* c.WatchOwned(ctx, ownedClient, OwnerGVK, isController): the informer
\* starts with the list of the objects that exist.
WatchOwned(isController) ==
    /\ ~fatal
    /\ ~watch.on
    /\ events = <<>>
    /\ watch' = [on |-> TRUE, isController |-> isController]
    /\ events' = IF owned.exists
                 THEN <<[type |-> "add", old |-> owned, new |-> owned]>>
                 ELSE <<>>
    /\ UNCHANGED <<shared, config, fatal, pc, locals, probe, owned, requested>>

\* Mutant: OnUpdate enqueues the owners of the new object only.
OwnedHandlerNewOnly(q, e) ==
    enqueueOwners(q, e.new, OwnerGVK, watch.isController)

\* The queue after the handler of WatchOwned ran for notification e.
OwnedHandler(q, e) ==
    IF e.type = "update"
    THEN enqueueOwners(enqueueOwners(q, e.old, OwnerGVK, watch.isController),
                       e.new, OwnerGVK, watch.isController)
    ELSE enqueueOwners(q, e.new, OwnerGVK, watch.isController)

\* The owned informer delivers its oldest notification.
OwnedInform ==
    /\ ~fatal
    /\ ~cancelled
    /\ events # <<>>
    /\ queue' = OwnedHandler(queue, Head(events))
    /\ events' = Tail(events)
    /\ UNCHANGED <<pending, store, extLeft, config, fatal, pc, locals, probe,
                   owned, watch, requested>>

(***************************************************************************)
(* Specifications.                                                         *)
(***************************************************************************)
\* What the collaborators and the reconciler may return.
ClientErrs == {Nil, Ordinary}
NoErrs == {Nil}
Outcomes ==
    {Nil, Ordinary, PermanentError(Ordinary), Errorf(PermanentError(Ordinary)),
     RequeueImmediately, RequeueAfter(0), RequeueAfter(1)}

AllEdits == SUBSET {"spec", "status", "ann"}

\* SpecLoop: two workers over two objects under a stream of notifications;
\* the reconciler edits nothing and succeeds or asks for a delayed requeue.
InitLoop == InitWith(MaxConcurrency, Keys)

NextLoop ==
    \/ \E k \in Keys : Resync(k)
    \/ \E k \in Keys : Inform(k)
    \/ \E k \in Keys : TimerFire(k)
    \/ StartWorkers
    \/ \E w \in Workers : ProcessNextItem(w)
    \/ \E w \in Workers : ProcessItem(w, NoErrs, {{}}, {Nil, RequeueAfter(1)})
    \/ \E w \in Workers : ForgetProcessed(w)
    \/ \E w \in Workers : HandleProcessError(w)
    \/ \E w \in Workers : DeferredDone(w)
    \/ \E w \in Workers : RunWorker(w)

SpecLoop == InitLoop /\ [][NextLoop]_vars

\* Spec: one worker over one object, every outcome of the reconciler and
\* of the client, a reconciler that edits any zone.
Init == InitWith(0, {"ns/a"})

Next ==
    \/ Resync("ns/a")
    \/ Inform("ns/a")
    \/ TimerFire("ns/a")
    \/ StartWorkers
    \/ \E w \in Workers : ProcessNextItem(w)
    \/ \E w \in Workers : ProcessItem(w, ClientErrs, AllEdits, Outcomes)
    \/ \E w \in Workers : UpdateMetadataGet(w, ClientErrs)
    \/ \E w \in Workers : UpdateMetadataPut(w, {Ordinary})
    \/ \E w \in Workers : UpdateStatusGet(w, ClientErrs)
    \/ \E w \in Workers : UpdateStatusPut(w, {Ordinary})
    \/ \E w \in Workers : ForgetProcessed(w)
    \/ \E w \in Workers : HandleProcessError(w)
    \/ \E w \in Workers : DeferredDone(w)
    \/ \E w \in Workers : RunWorker(w)

Spec == Init /\ [][Next]_vars

\* SpecPersist: one worker over one object whose zones other clients write
\* while the reconciler, which succeeds, edits any of them.
NextPersist ==
    \/ Inform("ns/a")
    \/ TimerFire("ns/a")
    \/ StartWorkers
    \/ \E w \in Workers : ProcessNextItem(w)
    \/ \E w \in Workers : ProcessItem(w, NoErrs, AllEdits, {Nil})
    \/ \E w \in Workers : UpdateMetadataGet(w, NoErrs)
    \/ \E w \in Workers : UpdateMetadataPut(w, {})
    \/ \E w \in Workers : UpdateStatusGet(w, NoErrs)
    \/ \E w \in Workers : UpdateStatusPut(w, {})
    \/ \E w \in Workers : ForgetProcessed(w)
    \/ \E w \in Workers : HandleProcessError(w)
    \/ \E w \in Workers : DeferredDone(w)
    \/ \E w \in Workers : RunWorker(w)
    \/ \E zone \in {"spec", "status", "meta"} : ExtWrite("ns/a", zone)

SpecPersist == Init /\ [][NextPersist]_vars

\* SpecCeiling: each key enqueued once and never notified again, a
\* reconciler that always returns an ordinary error.
InitCeiling == InitWith(1, Keys)

NextCeiling ==
    \/ \E k \in Keys : Inform(k)
    \/ \E k \in Keys : TimerFire(k)
    \/ StartWorkers
    \/ \E w \in Workers : ProcessNextItem(w)
    \/ \E w \in Workers : ProcessItem(w, NoErrs, {{}}, {Ordinary})
    \/ \E w \in Workers : HandleProcessError(w)
    \/ \E w \in Workers : DeferredDone(w)
    \/ \E w \in Workers : RunWorker(w)

SpecCeiling == InitCeiling /\ [][NextCeiling]_vars

\* SpecFail: one worker over one object; the reconciler succeeds after
\* editing metadata or status, and the writes meet every failure of the
\* client: a failed re-fetch, a non-conflict write error, and conflicts
\* with another client's writes.  The scheduler is fair to the worker, to
\* the informer and to the timer of the delaying queue.
PersistEdits == {{"ann"}, {"ann", "status"}}

NextFail ==
    \/ Inform("ns/a")
    \/ TimerFire("ns/a")
    \/ StartWorkers
    \/ \E w \in Workers : ProcessNextItem(w)
    \/ \E w \in Workers : ProcessItem(w, NoErrs, PersistEdits, {Nil})
    \/ \E w \in Workers : UpdateMetadataGet(w, ClientErrs)
    \/ \E w \in Workers : UpdateMetadataPut(w, {Ordinary})
    \/ \E w \in Workers : UpdateStatusGet(w, ClientErrs)
    \/ \E w \in Workers : UpdateStatusPut(w, {Ordinary})
    \/ \E w \in Workers : ForgetProcessed(w)
    \/ \E w \in Workers : HandleProcessError(w)
    \/ \E w \in Workers : DeferredDone(w)
    \/ \E w \in Workers : RunWorker(w)
    \/ ExtWrite("ns/a", "meta")

FairWorker(w, getErrs, editSets, outcomes) ==
    /\ WF_vars(ProcessNextItem(w))
    /\ WF_vars(ProcessItem(w, getErrs, editSets, outcomes))
    /\ WF_vars(HandleProcessError(w))
    /\ WF_vars(ForgetProcessed(w))
    /\ WF_vars(DeferredDone(w))
    /\ WF_vars(RunWorker(w))

SpecFail ==
    /\ Init
    /\ [][NextFail]_vars
    /\ WF_vars(StartWorkers)
    /\ WF_vars(Inform("ns/a"))
    /\ WF_vars(TimerFire("ns/a"))
    /\ \A w \in Workers : FairWorker(w, NoErrs, PersistEdits, {Nil})

\* SpecEvents: two workers over two objects under a stream of
\* notifications, fairly scheduled; the reconciler edits nothing and
\* returns nil, a delayed requeue or a permanent error.
EventOutcomes == {Nil, RequeueAfter(1), PermanentError(Ordinary)}

NextEvents ==
    \/ \E k \in Keys : Resync(k)
    \/ \E k \in Keys : Inform(k)
    \/ \E k \in Keys : TimerFire(k)
    \/ StartWorkers
    \/ \E w \in Workers : ProcessNextItem(w)
    \/ \E w \in Workers : ProcessItem(w, NoErrs, {{}}, EventOutcomes)
    \/ \E w \in Workers : ForgetProcessed(w)
    \/ \E w \in Workers : HandleProcessError(w)
    \/ \E w \in Workers : DeferredDone(w)
    \/ \E w \in Workers : RunWorker(w)

SpecEvents ==
    /\ InitLoop
    /\ [][NextEvents]_vars
    /\ WF_vars(StartWorkers)
    /\ \A k \in Keys : WF_vars(Inform(k)) /\ WF_vars(TimerFire(k))
    /\ \A w \in Workers : FairWorker(w, NoErrs, {{}}, EventOutcomes)

\* SpecOwn: one worker, the only writer of one object, with a client that
\* never fails; the reconciler succeeds after setting or deleting an
\* annotation, setting a label, adding or removing a finalizer, or setting
\* the status.
OwnEdits ==
    {{}, {"ann"}, {"annDel"}, {"lab"}, {"finAdd"}, {"finDel"}, {"status"},
     {"ann", "status"}, {"finAdd", "lab"}}

NextOwn ==
    \/ Resync("ns/a")
    \/ Inform("ns/a")
    \/ StartWorkers
    \/ \E w \in Workers : ProcessNextItem(w)
    \/ \E w \in Workers : ProcessItem(w, NoErrs, OwnEdits, {Nil})
    \/ \E w \in Workers : UpdateMetadataGet(w, NoErrs)
    \/ \E w \in Workers : UpdateMetadataPut(w, {})
    \/ \E w \in Workers : UpdateStatusGet(w, NoErrs)
    \/ \E w \in Workers : UpdateStatusPut(w, {})
    \/ \E w \in Workers : ForgetProcessed(w)
    \/ \E w \in Workers : DeferredDone(w)
    \/ \E w \in Workers : RunWorker(w)

SpecOwn == Init /\ [][NextOwn]_vars

\* SpecFinalizer: one worker over one object created without finalizers,
\* the finalizer reconciler, a client that never fails, and another client
\* that deletes the object; fairly scheduled.
FinalizerEdits == {{"finalizer"}}

NextFinalizer ==
    \/ Resync("ns/a")
    \/ Inform("ns/a")
    \/ TimerFire("ns/a")
    \/ StartWorkers
    \/ \E w \in Workers : ProcessNextItem(w)
    \/ \E w \in Workers : ProcessItem(w, NoErrs, FinalizerEdits, {Nil})
    \/ \E w \in Workers : UpdateMetadataGet(w, NoErrs)
    \/ \E w \in Workers : UpdateMetadataPut(w, {})
    \/ \E w \in Workers : ForgetProcessed(w)
    \/ \E w \in Workers : HandleProcessError(w)
    \/ \E w \in Workers : DeferredDone(w)
    \/ \E w \in Workers : RunWorker(w)
    \/ ExtWrite("ns/a", "delete")

SpecFinalizer ==
    /\ Init
    /\ [][NextFinalizer]_vars
    /\ WF_vars(StartWorkers)
    /\ WF_vars(Inform("ns/a"))
    /\ WF_vars(TimerFire("ns/a"))
    /\ \A w \in Workers :
          /\ FairWorker(w, NoErrs, FinalizerEdits, {Nil})
          /\ WF_vars(UpdateMetadataGet(w, NoErrs))
          /\ WF_vars(UpdateMetadataPut(w, {}))

\* SpecErrors: the error taxonomy on its own, over every chain of at most
\* MaxChain links.
InitErrors == InitWith(0, {})

NextErrors ==
    \/ \E e \in Sentinels : NewError(e)
    \/ WrapError
    \/ WrapPermanent
    \/ CallIsPermanentError
    \/ CallIsRequeueError
    \/ CallGetRequeueDuration
    \/ CallUnwrap

SpecErrors == InitErrors /\ [][NextErrors]_vars

\* SpecOwners: the EnqueueRequestForOwner mapping applied to subordinate
\* objects, namespaced and cluster scoped, with every list of at most
\* MaxRefs references.
InitOwners == InitWith(0, {})

NextOwners ==
    \/ \E ns \in {"ns", ""}, refs \in RefLists(Refs) : OwnedCreate(ns, refs)
    \/ \E refs \in RefLists(Refs) : OwnedUpdate(refs)
    \/ OwnedDelete
    \/ \E isController \in BOOLEAN : CallEnqueueRequestForOwner(isController)

SpecOwners == InitOwners /\ [][NextOwners]_vars

\* SpecWatch: a controller that watches the subordinate objects of one
\* namespace while other clients create, re-parent and delete them; its
\* worker reconciles the owners it is handed.
WatchLists ==
    {<<>>,
     <<OwnerRef(V1, "ConfigMap", "a", "true")>>,
     <<OwnerRef(V1, "ConfigMap", "b", "true")>>,
     <<OwnerRef(V1, "ConfigMap", "b", "nil"),
       OwnerRef(V1, "ConfigMap", "a", "true")>>,
     <<OwnerRef(V1, "Deployment", "a", "true"),
       OwnerRef(V1, "ConfigMap", "b", "false")>>,
     <<OwnerRef(BadVersion, "ConfigMap", "a", "true")>>}

InitWatch == InitWith(0, {})

NextWatch ==
    \/ \E isController \in BOOLEAN : WatchOwned(isController)
    \/ \E refs \in WatchLists : OwnedCreate("ns", refs)
    \/ \E refs \in WatchLists : OwnedUpdate(refs)
    \/ OwnedDelete
    \/ OwnedInform
    \/ StartWorkers
    \/ \E w \in Workers : ProcessNextItem(w)
    \/ \E w \in Workers : ProcessItem(w, NoErrs, {{}}, {Nil})
    \/ \E w \in Workers : ForgetProcessed(w)
    \/ \E w \in Workers : DeferredDone(w)
    \/ \E w \in Workers : RunWorker(w)

SpecWatch == InitWatch /\ [][NextWatch]_vars

\* SpecRefs: a subordinate object created without owner references, and
\* clients that set and remove owners on it with the helpers.
NextRefs ==
    \/ OwnedCreate("ns", <<>>)
    \/ \E owner \in Owners, controller \in BOOLEAN : SetOwner(owner, controller)
    \/ \E owner \in Owners : RemoveOwner(owner)
    \/ OwnedDelete

SpecRefs == InitOwners /\ [][NextRefs]_vars

\* SpecCancel: the workers over one object; the reconciler sets an
\* annotation, or that and the status, and returns nil or asks for a delayed
\* requeue;
\* the caller of Run cancels the context at any moment.  The scheduler is
\* fair to Run and to the workers.
NextCancel ==
    \/ Inform("ns/a")
    \/ TimerFire("ns/a")
    \/ StartWorkers
    \/ Cancel
    \/ RunReturns
    \/ \E w \in Workers : ProcessNextItem(w)
    \/ \E w \in Workers : ProcessItem(w, NoErrs, PersistEdits, {Nil, RequeueAfter(1)})
    \/ \E w \in Workers : UpdateMetadataGet(w, NoErrs)
    \/ \E w \in Workers : UpdateMetadataPut(w, {})
    \/ \E w \in Workers : UpdateStatusGet(w, NoErrs)
    \/ \E w \in Workers : UpdateStatusPut(w, {})
    \/ \E w \in Workers : ForgetProcessed(w)
    \/ \E w \in Workers : HandleProcessError(w)
    \/ \E w \in Workers : DeferredDone(w)
    \/ \E w \in Workers : RunWorker(w)

SpecCancel ==
    /\ InitWith(MaxConcurrency, {"ns/a"})
    /\ [][NextCancel]_vars
    /\ WF_vars(StartWorkers)
    /\ WF_vars(RunReturns)
    /\ \A w \in Workers :
          /\ FairWorker(w, NoErrs, PersistEdits, {Nil, RequeueAfter(1)})
          /\ WF_vars(UpdateMetadataGet(w, NoErrs))
          /\ WF_vars(UpdateMetadataPut(w, {}))
          /\ WF_vars(UpdateStatusGet(w, NoErrs))
          /\ WF_vars(UpdateStatusPut(w, {}))

\* SpecRequeue: the workers over one object that nobody else writes; the
\* reconciler sets an annotation, or that and the status, and returns nil,
\* or asks for a delayed requeue.  The only notifications are the one of
\* the object's creation and those of the controller's own writes.  The
\* scheduler is fair to the informer, the timer and the workers.
NextRequeue ==
    \/ Inform("ns/a")
    \/ TimerFire("ns/a")
    \/ StartWorkers
    \/ \E w \in Workers : ProcessNextItem(w)
    \/ \E w \in Workers : ProcessItem(w, NoErrs, PersistEdits, {Nil, RequeueAfter(1)})
    \/ \E w \in Workers : UpdateMetadataGet(w, NoErrs)
    \/ \E w \in Workers : UpdateMetadataPut(w, {})
    \/ \E w \in Workers : UpdateStatusGet(w, NoErrs)
    \/ \E w \in Workers : UpdateStatusPut(w, {})
    \/ \E w \in Workers : ForgetProcessed(w)
    \/ \E w \in Workers : HandleProcessError(w)
    \/ \E w \in Workers : DeferredDone(w)
    \/ \E w \in Workers : RunWorker(w)

SpecRequeue ==
    /\ InitWith(MaxConcurrency, {"ns/a"})
    /\ [][NextRequeue]_vars
    /\ WF_vars(StartWorkers)
    /\ WF_vars(Inform("ns/a"))
    /\ WF_vars(TimerFire("ns/a"))
    /\ \A w \in Workers :
          /\ FairWorker(w, NoErrs, PersistEdits, {Nil, RequeueAfter(1)})
          /\ WF_vars(UpdateMetadataGet(w, NoErrs))
          /\ WF_vars(UpdateMetadataPut(w, {}))
          /\ WF_vars(UpdateStatusGet(w, NoErrs))
          /\ WF_vars(UpdateStatusPut(w, {}))

\* SpecMerge: one worker over one object; the reconciler sets its own
\* annotation, label and status or adds or removes its finalizer F and
\* returns nil, while another client adds and removes the finalizer E,
\* changes the annotation ext and writes the status.
NextMerge ==
    \/ Inform("ns/a")
    \/ TimerFire("ns/a")
    \/ StartWorkers
    \/ \E w \in Workers : ProcessNextItem(w)
    \/ \E w \in Workers :
          ProcessItem(w, NoErrs,
                      {{"ann", "lab", "status"}, {"finAdd"}, {"finDel"}}, {Nil})
    \/ \E w \in Workers : UpdateMetadataGet(w, NoErrs)
    \/ \E w \in Workers : UpdateMetadataPut(w, {})
    \/ \E w \in Workers : UpdateStatusGet(w, NoErrs)
    \/ \E w \in Workers : UpdateStatusPut(w, {})
    \/ \E w \in Workers : ForgetProcessed(w)
    \/ \E w \in Workers : HandleProcessError(w)
    \/ \E w \in Workers : DeferredDone(w)
    \/ \E w \in Workers : RunWorker(w)
    \/ \E zone \in {"finalizer", "value", "status"} : ExtWrite("ns/a", zone)

SpecMerge == Init /\ [][NextMerge]_vars

\* SpecConflict: the workers over one object; the reconciler sets an
\* annotation and returns nil, the client never fails, and another client
\* writes the object's spec MaxExtWrites times, each write a conflict for an
\* Update prepared before it.  The scheduler is fair to the
\* informer, the timer and the workers.
NextConflict ==
    \/ Inform("ns/a")
    \/ TimerFire("ns/a")
    \/ StartWorkers
    \/ \E w \in Workers : ProcessNextItem(w)
    \/ \E w \in Workers : ProcessItem(w, NoErrs, {{"ann"}}, {Nil})
    \/ \E w \in Workers : UpdateMetadataGet(w, NoErrs)
    \/ \E w \in Workers : UpdateMetadataPut(w, {})
    \/ \E w \in Workers : ForgetProcessed(w)
    \/ \E w \in Workers : HandleProcessError(w)
    \/ \E w \in Workers : DeferredDone(w)
    \/ \E w \in Workers : RunWorker(w)
    \/ ExtWrite("ns/a", "spec")

SpecConflict ==
    /\ InitWith(MaxConcurrency, {"ns/a"})
    /\ [][NextConflict]_vars
    /\ WF_vars(StartWorkers)
    /\ WF_vars(Inform("ns/a"))
    /\ WF_vars(TimerFire("ns/a"))
    /\ \A w \in Workers :
          /\ FairWorker(w, NoErrs, {{"ann"}}, {Nil})
          /\ WF_vars(UpdateMetadataGet(w, NoErrs))
          /\ WF_vars(UpdateMetadataPut(w, {}))

\* SpecRun: Run from its first statement to its return, over one object
\* and one owned type: the primary informer may fail to start, the watch of
\* the owned type may fail, and the caller cancels the context at any
\* moment.  The reconciler edits nothing and returns nil.  The scheduler
\* is fair to Run and to the workers.
NextRun ==
    \/ Inform("ns/a")
    \/ InformFails
    \/ WatchOwned(FALSE)
    \/ WatchOwnedFails
    \/ TimerFire("ns/a")
    \/ StartWorkers
    \/ Cancel
    \/ RunReturns
    \/ \E w \in Workers : ProcessNextItem(w)
    \/ \E w \in Workers : ProcessItem(w, NoErrs, {{}}, {Nil})
    \/ \E w \in Workers : ForgetProcessed(w)
    \/ \E w \in Workers : HandleProcessError(w)
    \/ \E w \in Workers : DeferredDone(w)
    \/ \E w \in Workers : RunWorker(w)

SpecRun ==
    /\ InitWith(MaxConcurrency, {"ns/a"})
    /\ [][NextRun]_vars
    /\ WF_vars(StartWorkers)
    /\ WF_vars(RunReturns)
    /\ \A w \in Workers : FairWorker(w, NoErrs, {{}}, {Nil})

\* SpecConverge: the workers over two objects that nobody else writes; the
\* reconciler sets its annotation and the status, which a second call on
\* its own output leaves as they are, and returns nil.  The notifications
\* are those of the initial list and of the controller's own writes, and
\* arrive at any moment.  The scheduler is fair to the informer and the
\* workers.
NextConverge ==
    \/ \E k \in Keys : Inform(k)
    \/ StartWorkers
    \/ \E w \in Workers : ProcessNextItem(w)
    \/ \E w \in Workers : ProcessItem(w, NoErrs, {{"ann", "status"}}, {Nil})
    \/ \E w \in Workers : UpdateMetadataGet(w, NoErrs)
    \/ \E w \in Workers : UpdateMetadataPut(w, {})
    \/ \E w \in Workers : UpdateStatusGet(w, NoErrs)
    \/ \E w \in Workers : UpdateStatusPut(w, {})
    \/ \E w \in Workers : ForgetProcessed(w)
    \/ \E w \in Workers : DeferredDone(w)
    \/ \E w \in Workers : RunWorker(w)

SpecConverge ==
    /\ InitWith(MaxConcurrency, Keys)
    /\ [][NextConverge]_vars
    /\ WF_vars(StartWorkers)
    /\ \A k \in Keys : WF_vars(Inform(k))
    /\ \A w \in Workers :
          /\ FairWorker(w, NoErrs, {{"ann", "status"}}, {Nil})
          /\ WF_vars(UpdateMetadataGet(w, NoErrs))
          /\ WF_vars(UpdateMetadataPut(w, {}))
          /\ WF_vars(UpdateStatusGet(w, NoErrs))
          /\ WF_vars(UpdateStatusPut(w, {}))

(***************************************************************************)
(* Properties.                                                             *)
(***************************************************************************)
HasLink(e, t) == \E i \in 1..Len(e) : e[i].t = t
\* The worker has left the body of processNextItem it entered with a key.
LeftCycle(w) == key[w] # NoKey /\ ~InCycle(w)
\* The worker takes a step out of position at.
Leaves(w, at) == pc[w] = at /\ pc'[w] # at

\* C1: no two workers are at the same time inside a reconcile cycle
\* (between Get returning a key and Done of that key) for the same key.
C1_NoConcurrentReconcile ==
    \A w1, w2 \in Workers :
        (w1 # w2 /\ InCycle(w1) /\ InCycle(w2)) => key[w1] # key[w2]

\* Two cycles for different keys overlap while one of the keys has been
\* added again and waits for its worker's Done.
C1_Witness ==
    \E w1, w2 \in Workers :
        /\ w1 # w2 /\ InCycle(w1) /\ InCycle(w2)
        /\ key[w1] \in queue.dirty
        /\ key[w1] \notin queue.waiting

\* C2: a cycle whose reconciler returned a non-nil error issues no Update
\* and no UpdateStatus call and never enters a retry closure.
C2_ErrorSkipsPersistence ==
    \A w \in Workers :
        ret[w] = "err" =>
            /\ wrote[w] = {}
            /\ pc[w] \in {"handle", "done", "select", "fatal"}

\* A finished cycle whose reconciler set the status, then asked for a
\* requeue: the store does not hold that status.
C2_Witness ==
    \E w \in Workers :
        /\ pc[w] = "select" /\ ret[w] = "err"
        /\ cur[w].status = "ready"
        /\ store[key[w]].status # "ready"

\* C3: no write of a worker changes the spec the store holds, and a
\* reconciler that returned nil after editing the spec does not fail the
\* cycle: with nothing else changed the cycle goes straight to Forget.
C3_Step(w) ==
    /\ (Leaves(w, "metaPut") \/ Leaves(w, "statusPut")) =>
           store'[key[w]].spec = store[key[w]].spec
    /\ (Leaves(w, "fetch") /\ ret'[w] = "nil" /\ chg'[w].spec) =>
           pc'[w] = (IF chg'[w].meta THEN "metaGet"
                     ELSE IF chg'[w].status THEN "statusGet" ELSE "forget")

C3_SpecNeverWritten == [][\A w \in Workers : C3_Step(w)]_vars

\* A cycle whose reconciler edited spec and metadata ended in Forget and
\* Done after its Update, and the store's spec is not the edited one.
C3_Witness ==
    \E w \in Workers :
        /\ pc[w] = "select" /\ chg[w].spec /\ "Update" \in wrote[w]
        /\ calls[w] = <<"Forget", "Done">>
        /\ cur[w].spec = "sLocal"
        /\ store[key[w]].spec # "sLocal"
        /\ "own" \in DOMAIN store[key[w]].ann

\* C4: the successful Update of a cycle leaves the status in the store as
\* it was (an external write included) and stores the merged metadata; the
\* successful UpdateStatus leaves the metadata in the store as it was and
\* stores the reconciler's status; and with conflicts as the only failures
\* a write gives up only at its last attempt.
SameMetadata(a, b) == a.fin = b.fin /\ a.ann = b.ann /\ a.lab = b.lab

C4_Step(w) ==
    /\ (Leaves(w, "metaPut") /\ pc'[w] \in {"statusGet", "forget"}) =>
           /\ store'[key[w]].status = store[key[w]].status
           /\ SameMetadata(store'[key[w]], mergeMetadata(store[key[w]], cur[w]))
    /\ (Leaves(w, "statusPut") /\ pc'[w] = "forget") =>
           /\ SameMetadata(store'[key[w]], store[key[w]])
           /\ store'[key[w]].status = cur[w].status
    /\ ((Leaves(w, "metaPut") \/ Leaves(w, "statusPut")) /\ pc'[w] = "handle") =>
           attempt[w] = RetrySteps

C5_DoneExactlyOnce ==
    \A w \in Workers :
        /\ LeftCycle(w) =>
              /\ calls[w] # <<>>
              /\ calls[w][Len(calls[w])] = "Done"
              /\ Cardinality({i \in 1..Len(calls[w]) : calls[w][i] = "Done"}) = 1
        /\ (InCycle(w) \/ key[w] = NoKey) =>
              \A i \in 1..Len(calls[w]) : calls[w][i] # "Done"

\* C6: with a reconciler that always returns an ordinary error and no
\* further notification, a failure at NumRequeues < 10 re-enqueues the key
\* with AddRateLimited, the failure at NumRequeues >= 10 calls Forget and
\* does not re-enqueue, the count never passes the ceiling, and a key that
\* has been dropped stays out of the queue for good.
Quiesced(k) ==
    /\ k \notin pending
    /\ k \notin queue.dirty
    /\ k \notin queue.processing
    /\ k \notin queue.waiting
    /\ ~Contains(queue.items, k)

C6_Step(w) ==
    LET k == key[w]
    IN  /\ (Leaves(w, "handle") /\ NumRequeues(queue, k) < RetryCeiling) =>
               /\ calls'[w] = <<"AddRateLimited">>
               /\ NumRequeues(queue', k) = NumRequeues(queue, k) + 1
               /\ k \in queue'.waiting
        /\ (Leaves(w, "handle") /\ NumRequeues(queue, k) >= RetryCeiling) =>
               /\ calls'[w] = <<"Forget">>
               /\ NumRequeues(queue', k) = 0
               /\ k \notin queue'.waiting /\ k \notin queue'.dirty
        /\ (Leaves(w, "select") /\ calls[w] = <<"Forget", "Done">>) =>
               Quiesced(k)'

C6_RetryCeiling ==
    [][/\ \A w \in Workers : C6_Step(w)
       /\ \A k \in Keys : NumRequeues(queue, k)' <= RetryCeiling
       /\ \A k \in Keys : (Quiesced(k) /\ NumRequeues(queue, k) = 0) =>
                              (Quiesced(k) /\ NumRequeues(queue, k) = 0)']_vars

\* A key has been dropped after its failures and is nowhere in the queue.
C6_Witness ==
    \E w \in Workers :
        /\ pc[w] = "select" /\ ret[w] = "err" /\ err[w] = Ordinary
        /\ calls[w] = <<"Forget", "Done">>
        /\ Quiesced(key[w]) /\ NumRequeues(queue, key[w]) = 0

\* C7: a cycle that ended with a permanent error calls Forget and then
\* Done, and none of Add, AddAfter, AddRateLimited.
C7_PermanentForgets ==
    \A w \in Workers :
        (HasLink(err[w], "permanent") /\ pc[w] # "handle") =>
            calls[w] \in {<<"Forget">>, <<"Forget", "Done">>}

\* C8: a cycle whose reconciler returned RequeueAfter(d), d >= 0, calls
\* AddAfter and then Done, neither AddRateLimited nor Forget, and leaves
\* NumRequeues of the key as it was.
C8_RequeueAfterAddsAfter ==
    \A w \in Workers :
        (ret[w] = "err" /\ \E d \in Durations : err[w] = RequeueAfter(d)
            /\ pc[w] # "handle") =>
            calls[w] \in {<<"AddAfter">>, <<"AddAfter", "Done">>}

\* C9: a cycle whose reconciler returned RequeueImmediately() calls
\* AddRateLimited and then Done whatever NumRequeues is, and never Forget.
C9_ImmediateIsRateLimited ==
    \A w \in Workers :
        (ret[w] = "err" /\ err[w] = RequeueImmediately /\ pc[w] # "handle") =>
            /\ pc[w] \in {"done", "select"}
            /\ calls[w] = (IF pc[w] = "done" THEN <<"AddRateLimited">>
                           ELSE <<"AddRateLimited", "Done">>)

\* An immediate requeue handled with the key past the retry ceiling.
C9_Witness ==
    \E w \in Workers :
        /\ pc[w] = "select" /\ ret[w] = "err" /\ err[w] = RequeueImmediately
        /\ calls[w] = <<"AddRateLimited", "Done">>
        /\ NumRequeues(queue, key[w]) > RetryCeiling

\* C10: a cycle whose reconciler returned nil and whose writes succeeded
\* calls Forget, then Done, and no other queue operation; NumRequeues of the
\* key is 0 afterwards.
C10_SuccessForgets ==
    \A w \in Workers :
        (ret[w] = "nil" /\ err[w] = Nil /\ pc[w] \in {"done", "select"}) =>
            /\ calls[w] = (IF pc[w] = "done" THEN <<"Forget">>
                           ELSE <<"Forget", "Done">>)
            /\ NumRequeues(queue, key[w]) = 0

\* A cycle that wrote metadata and status ended with Forget and Done.
C10_Witness ==
    \E w \in Workers :
        /\ pc[w] = "select" /\ ret[w] = "nil" /\ err[w] = Nil
        /\ wrote[w] = {"Update", "UpdateStatus"}
        /\ calls[w] = <<"Forget", "Done">>

\* C11: a persistence failure after a successful reconciler is not
\* swallowed.  The cycle goes past a write only when the store holds what
\* was written; a failed re-fetch, a non-conflict write error and the
\* conflict of the last attempt end the cycle with a non-nil error that is
\* neither permanent nor a requeue request; that error is handled with
\* AddRateLimited while NumRequeues is under the ceiling; and the key then
\* reaches the reconciler again.
PersistSteps == {"metaGet", "metaPut", "statusGet", "statusPut"}

PersistenceFailed(w) ==
    ret[w] = "nil" /\ err[w] # Nil /\ pc[w] = "handle"

C11_Step(w) ==
    /\ ((Leaves(w, "metaPut") /\ pc'[w] \in {"statusGet", "forget"})
            \/ (Leaves(w, "statusPut") /\ pc'[w] = "forget")) =>
           store'[key[w]] = latest[w]
    /\ (pc[w] \in PersistSteps /\ pc'[w] = "handle") =>
           /\ err'[w] # Nil
           /\ IsPermanentError(err'[w]) = "false"
           /\ IsRequeueError(err'[w]) = "false"
           /\ GetRequeueDuration(err'[w]) = 0
    /\ (PersistenceFailed(w) /\ Leaves(w, "handle")
            /\ NumRequeues(queue, key[w]) < RetryCeiling) =>
           /\ calls'[w] = <<"AddRateLimited">>
           /\ key[w] \in queue'.waiting
           /\ NumRequeues(queue', key[w]) = NumRequeues(queue, key[w]) + 1

C11_PersistenceFailureRetried ==
    /\ [][\A w \in Workers : C11_Step(w)]_vars
    /\ \A w \in Workers :
          (PersistenceFailed(w) /\ NumRequeues(queue, "ns/a") < RetryCeiling)
              ~> (pc[w] = "fetch" /\ key[w] = "ns/a")

\* A cycle gave up on its Update at the conflict of the last attempt and
\* the key was added back rate limited.
C11_Witness ==
    \E w \in Workers :
        /\ pc[w] = "select" /\ ret[w] = "nil"
        /\ HasLink(err[w], "conflict")
        /\ attempt[w] = RetrySteps
        /\ calls[w] = <<"AddRateLimited", "Done">>
        /\ store["ns/a"].ann # latest[w].ann

\* C12: no event is lost.  Every notification for k results in Add(k): k
\* is marked dirty, also while a worker processes k and while k waits out a
\* delay; the mark is cleared only by a worker's Get of k, the start of a
\* cycle; and under fair scheduling every marked key gets that cycle.
C12_Step(k) ==
    /\ (k \in pending /\ k \notin pending') => k \in queue'.dirty
    /\ (k \in queue.dirty /\ k \notin queue'.dirty) =>
           \E w \in Workers :
               pc[w] = "idle" /\ pc'[w] = "fetch" /\ key'[w] = k

C12_NoEventLost ==
    /\ [][\A k \in Keys : C12_Step(k)]_vars
    /\ \A k \in Keys : (k \in queue.dirty) ~> (k \notin queue.dirty)

\* C13: after a cycle in which the reconciler returned nil, whose writes
\* succeeded and during which no other client wrote the object, the store
\* holds the annotations, labels, finalizers and status of the object as the
\* reconciler left it.
C13_ChangesPersisted ==
    \A w \in Workers :
        (pc[w] = "select" /\ ret[w] = "nil"
            /\ calls[w] = <<"Forget", "Done">>) =>
            /\ SameMetadata(store[key[w]], cur[w])
            /\ store[key[w]].status = cur[w].status

\* C14: the finalizer protocol end to end.  A successful cycle on an object
\* without the deletion marker leaves it in the store with finalizer F and
\* its status as created; a successful cycle on an object with the marker
\* leaves the store without the object or without finalizers; and once
\* the marker is set the object eventually has no finalizers or is gone.
Succeeded(w) ==
    pc[w] = "select" /\ ret[w] = "nil" /\ calls[w] = <<"Forget", "Done">>

Released(obj) == obj = NoObject \/ obj.fin = <<>>

C14_Cycle ==
    \A w \in Workers :
        /\ (Succeeded(w) /\ ~cur[w].del) =>
               /\ Contains(store[key[w]].fin, "F")
               /\ store[key[w]].status = NewObject.status
        /\ (Succeeded(w) /\ cur[w].del) => Released(store[key[w]])

C14_FinalizerProtocol ==
    /\ []C14_Cycle
    /\ store["ns/a"].del ~> Released(store["ns/a"])

\* The cycle that followed the deletion removed F and the object is gone.
C14_Witness ==
    \E w \in Workers :
        /\ Succeeded(w) /\ cur[w].del /\ chg[w].meta
        /\ "Update" \in wrote[w]
        /\ store[key[w]] = NoObject

Called(name) == name \in res.called
\* arg is a chain of fmt.Errorf wrappers around the single link t.
WrapsOnly(t) ==
    /\ arg # Nil
    /\ arg[Len(arg)].t = t
    /\ \A i \in 1..(Len(arg) - 1) : arg[i].t = "wrap"

\* C15: for every non-nil e, IsPermanentError(PermanentError(e)) returns
\* true, IsRequeueError(PermanentError(e)) returns false and
\* errors.Unwrap(PermanentError(e)) is e; PermanentError(nil) is nil.
C15_PermanentErrorClassified ==
    /\ PermanentError(Nil) = Nil
    /\ (arg # Nil /\ arg[1].t = "permanent") =>
           /\ Called("IsPermanentError") => res.permanent = "true"
           /\ Called("IsRequeueError") => res.requeue = "false"
           /\ Called("Unwrap") => res.unwrapped = Tail(arg)

\* C16: IsRequeueError is true and IsPermanentError false of
\* RequeueAfter(d), for every d, and of RequeueImmediately(); both
\* constructors return a non-nil error.
C16_RequeueErrorsClassified ==
    /\ RequeueImmediately # Nil
    /\ \A d \in Durations : RequeueAfter(d) # Nil
    /\ (arg = RequeueImmediately \/ \E d \in Durations : arg = RequeueAfter(d)) =>
           /\ Called("IsRequeueError") => res.requeue = "true"
           /\ Called("IsPermanentError") => res.permanent = "false"

\* C17: GetRequeueDuration(RequeueAfter(d)) is d, and GetRequeueDuration is
\* 0 of RequeueImmediately(), of PermanentError(e) for any non-nil e, of an
\* ordinary error and of nil.
C17_RequeueDuration ==
    Called("GetRequeueDuration") =>
        /\ \A d \in Durations : arg = RequeueAfter(d) => res.duration = d
        /\ arg \in {RequeueImmediately, Ordinary, Nil} => res.duration = 0
        /\ (arg # Nil /\ arg[1].t = "permanent") => res.duration = 0

\* C18: classification is stable under wrapping.  Of a chain that wraps
\* one sentinel any number of times, IsPermanentError is true exactly when
\* the sentinel is a permanent error, IsRequeueError exactly when it is a
\* delayed or an immediate requeue, and GetRequeueDuration is the duration
\* of the delayed requeue; of a chain of ordinary errors, and of nil, the
\* three return false, false and 0.
C18_StableUnderWrapping ==
    /\ Called("IsPermanentError") =>
           /\ (arg # Nil /\ \E n \in 1..Len(arg) :
                   /\ arg[n].t = "permanent"
                   /\ \A i \in 1..(n - 1) : arg[i].t = "wrap"
                   /\ \A i \in (n + 1)..Len(arg) : arg[i].t \in {"wrap", "ordinary"})
                 => res.permanent = "true"
           /\ (WrapsOnly("ordinary") \/ WrapsOnly("after")
                 \/ WrapsOnly("immediate") \/ arg = Nil)
                 => res.permanent = "false"
    /\ Called("IsRequeueError") =>
           /\ (WrapsOnly("after") \/ WrapsOnly("immediate"))
                 => res.requeue = "true"
           /\ (WrapsOnly("ordinary") \/ arg = Nil) => res.requeue = "false"
    /\ Called("GetRequeueDuration") =>
           /\ WrapsOnly("after") => res.duration = arg[Len(arg)].d
           /\ (WrapsOnly("ordinary") \/ WrapsOnly("immediate") \/ arg = Nil)
                 => res.duration = 0

\* C19: the mapping of EnqueueRequestForOwner yields one key
\* namespace/ownerName per reference whose apiVersion and kind are the
\* owner's, in reference order; controller-only keeps the references whose
\* controller flag is true; a subordinate with one controller and one
\* non-controller matching reference yields the controller's key alone, and
\* both keys without controller-only; references of another kind yield
\* nothing.
\* The positions of the references of refs the mapping keeps.
Kept(refs, isController) ==
    {i \in 1..Len(refs) :
        /\ refs[i].apiVersion = V1
        /\ refs[i].kind = "ConfigMap"
        /\ isController => refs[i].controller = "true"}

\* keys lists namespace/name of the kept references in their order.
ListsKept(keys, obj, kept) ==
    /\ Len(keys) = Cardinality(kept)
    /\ \A n \in 1..Len(keys) :
          \E i \in kept :
              /\ Cardinality({j \in kept : j <= i}) = n
              /\ keys[n] = obj.namespace \o "/" \o obj.refs[i].name

OneControllerOneNot(refs) ==
    /\ Len(refs) = 2
    /\ Kept(refs, FALSE) = {1, 2}
    /\ Cardinality(Kept(refs, TRUE)) = 1

C19_OwnerMapping ==
    requested.called =>
        /\ ListsKept(requested.keys, requested.obj,
                     Kept(requested.obj.refs, requested.isController))
        /\ (OneControllerOneNot(requested.obj.refs) /\ requested.isController) =>
               \E i \in 1..2 :
                   /\ requested.obj.refs[i].controller = "true"
                   /\ requested.keys =
                         <<requested.obj.namespace \o "/" \o requested.obj.refs[i].name>>
        /\ (OneControllerOneNot(requested.obj.refs) /\ ~requested.isController) =>
               Len(requested.keys) = 2
        /\ (\A i \in 1..Len(requested.obj.refs) :
                requested.obj.refs[i].kind # "ConfigMap") => requested.keys = <<>>

\* Controller-only on a subordinate of namespace ns whose first reference is
\* a matching non-controller one and whose second the controller.
C19_Witness ==
    /\ requested.called /\ requested.isController
    /\ requested.obj.namespace = "ns"
    /\ OneControllerOneNot(requested.obj.refs)
    /\ requested.obj.refs[1].controller = "nil"
    /\ requested.keys = <<"ns/b">>

\* C20: the handler of WatchOwned, run for an update notification, adds
\* to the controller's queue the keys of the owners of the old state and
\* of the owners of the new state, so that a move from owner A to owner B
\* adds both keys; run for an add or a delete notification it adds the
\* keys of the owners of the object carried; it adds no other key.
OwnerKeys(obj, isController) ==
    {obj.namespace \o "/" \o obj.refs[i].name : i \in Kept(obj.refs, isController)}

Notified(e, isController) ==
    IF e.type = "update"
    THEN OwnerKeys(e.old, isController) \cup OwnerKeys(e.new, isController)
    ELSE OwnerKeys(e.new, isController)

C20_Step ==
    (events # <<>> /\ events' = Tail(events)) =>
        /\ Notified(Head(events), watch.isController) \subseteq queue'.dirty
        /\ queue'.dirty \ queue.dirty
               \subseteq Notified(Head(events), watch.isController)
        /\ \A k \in queue'.dirty \ queue.dirty :
               Contains(queue'.items, k) \/ k \in queue'.processing

C20_BothOwnersEnqueued == [][C20_Step]_vars

\* The subordinate moved from owner a to owner b while neither key was in
\* the queue; after the update notification both are.
C20_Witness ==
    /\ events = <<>>
    /\ watch.on /\ watch.isController
    /\ owned.exists
    /\ OwnerKeys(owned, TRUE) = {"ns/b"}
    /\ queue.items = <<"ns/a", "ns/b">>
    /\ queue.dirty = {"ns/a", "ns/b"}

\* C21: starting from a subordinate object with no owner references, after
\* any sequence of SetOwnerReference and RemoveOwnerReference calls at most
\* one owner reference of the subordinate has the controller flag true.
Controllers(refs) == {i \in 1..Len(refs) : refs[i].controller = "true"}

C21_AtMostOneController == Cardinality(Controllers(owned.refs)) <= 1

\* C22: SetOwnerReference is an upsert keyed by the owner's UID.  A call for
\* an owner that is referenced replaces that reference where it is, a call
\* for another owner appends one; afterwards exactly one reference has the
\* owner's UID, its controller flag is the one of the call, the references
\* to the other owners are as they were; no two references ever share a UID.
WithUID(refs, uid) == {i \in 1..Len(refs) : refs[i].uid = uid}

C22_Post(before, after, owner, controller) ==
    /\ Cardinality(WithUID(after, owner.uid)) = 1
    /\ \A i \in WithUID(after, owner.uid) :
          /\ (after[i].controller = "true") = controller
          /\ after[i].name = owner.name
    /\ WithUID(before, owner.uid) # {} =>
          /\ Len(after) = Len(before)
          /\ WithUID(after, owner.uid) = WithUID(before, owner.uid)
          /\ \A i \in 1..Len(before) :
                i \notin WithUID(before, owner.uid) => after[i] = before[i]
    /\ WithUID(before, owner.uid) = {} =>
          /\ Len(after) = Len(before) + 1
          /\ SubSeq(after, 1, Len(before)) = before

C22_Step ==
    \A owner \in Owners, controller \in BOOLEAN :
        SetOwner(owner, controller) =>
            C22_Post(owned.refs, owned'.refs, owner, controller)

C22_UpsertByUID ==
    /\ [][C22_Step]_vars
    /\ [](\A owner \in Owners : Cardinality(WithUID(owned.refs, owner.uid)) <= 1)

\* The reference to a, first of two, was set again as the controller.
C22_Witness ==
    /\ Len(owned.refs) = 2
    /\ owned.refs[1].uid = "uid-a" /\ owned.refs[1].controller = "true"
    /\ owned.refs[2].uid = "uid-b" /\ owned.refs[2].controller = "nil"

\* C23: the queue never holds more than one pending occurrence of a key.
\* An enqueue of a key that waits in the queue, by a notification or by the
\* timer of a delayed add, leaves the queue as it is, and once Get has
\* handed the key to a worker nothing of the key is left pending: the burst
\* is delivered exactly once.
Occurrences(items, k) == Cardinality({i \in 1..Len(items) : items[i] = k})

C23_Step ==
    /\ \A k \in Keys :
          (Contains(queue.items, k) /\ (Inform(k) \/ TimerFire(k))) =>
              /\ queue'.items = queue.items
              /\ queue'.dirty = queue.dirty
    /\ \A w \in Workers :
          (pc[w] = "idle" /\ pc'[w] = "fetch") =>
              /\ key'[w] = Head(queue.items)
              /\ ~Contains(queue'.items, key'[w])
              /\ key'[w] \notin queue'.dirty

C23_SingleDelivery ==
    /\ [](\A k \in Keys : Occurrences(queue.items, k) <= 1)
    /\ [][C23_Step]_vars

\* Since the worker took the key, the timer of its rate-limited requeue has
\* fired and the notification of another client's write has been
\* delivered; the key waits in the queue once.
C23_Witness ==
    \E w \in Workers :
        /\ pc[w] = "select" /\ calls[w] = <<"AddRateLimited", "Done">>
        /\ key[w] \notin queue.waiting /\ key[w] \notin pending
        /\ "ext" \in DOMAIN store[key[w]].ann /\ "ext" \notin DOMAIN cur[w].ann
        /\ queue.items = <<key[w]>>

\* C24: after the cancellation the queue is shut down and every worker
\* exits.  A worker that finished a cycle after the cancellation has called
\* Done and stops at the select of runWorker, so it takes no further key; a
\* worker waiting in Get on an empty queue leaves on the shutdown signal.
Running == {w \in Workers : w <= concurrency}

C24_Step(w) ==
    /\ (cancelled /\ Leaves(w, "select")) =>
           /\ pc'[w] = "exited"
           /\ calls[w][Len(calls[w])] = "Done"
    /\ (pc[w] = "idle" /\ pc'[w] = "exited") =>
           queue.shuttingDown /\ queue.items = <<>>
    /\ pc[w] = "exited" => pc'[w] = "exited"

C24_WorkersExit ==
    /\ cancelled ~> (queue.shuttingDown /\ \A w \in Running : pc[w] = "exited")
    /\ [][\A w \in Workers : C24_Step(w)]_vars

\* One worker left on the shutdown signal of Get, the other finished the
\* cycle it was in and is about to stop.
C24_Witness ==
    /\ cancelled /\ queue.shuttingDown
    /\ \E w1, w2 \in Running :
          /\ pc[w1] = "exited"
          /\ pc[w2] = "select" /\ ret[w2] = "nil"
          /\ calls[w2] = <<"Forget", "Done">>

\* C25: a cycle that is in flight when the cancellation arrives is not
\* aborted by it: no fetch or write of a cycle whose reconciler returned
\* nil fails because the context is cancelled.
C25_InFlightCycleFinishes ==
    \A w \in Workers : ret[w] = "nil" => ~HasLink(err[w], "canceled")

\* C26: the reconciler is invoked once per external change of an object and
\* the controller's own persisted write causes no further invocation: with
\* no writer but the controller, no invocation that returns nil finds the
\* annotation of an earlier invocation already on the object.
C26_OncePerExternalChange ==
    \A w \in Workers : ret[w] = "nil" => chg[w].meta

\* C27: a cycle that ended with RequeueAfter(d), d > 0, calls AddAfter and
\* leaves the failure count alone, and the key is handed to a worker again
\* without any notification; the metadata changes of an invocation that
\* returned nil reach the store.
C27_Step(w) ==
    (Leaves(w, "handle") /\ err[w] = RequeueAfter(1)) =>
        /\ calls'[w] = <<"AddAfter">>
        /\ key[w] \in queue'.waiting
        /\ NumRequeues(queue', key[w]) = NumRequeues(queue, key[w])

Written(w, at) == Leaves(w, at) /\ pc'[w] \notin {"metaGet", "statusGet", "handle"} \cup {at}

\* C28: the metadata write applies only the reconciler's change to the
\* finalizers: the finalizer E of another client, which the reconciler
\* never touches, is on the object after the controller's Update exactly
\* when it was on it before, whatever the worker had fetched.
C28_FinalizerDelta ==
    [][\A w \in Workers :
          Written(w, "metaPut") =>
              (Contains(store'[key[w]].fin, "E") <=>
                   Contains(store[key[w]].fin, "E"))]_vars

\* C29: the metadata write applies only the reconciler's change to the
\* annotations: the annotation ext, which the reconciler never touches,
\* has after the controller's Update the value another client gave it.
C29_AnnotationDelta ==
    [][\A w \in Workers :
          (Written(w, "metaPut") /\ "ext" \in DOMAIN store[key[w]].ann) =>
              /\ "ext" \in DOMAIN store'[key[w]].ann
              /\ store'[key[w]].ann["ext"] = store[key[w]].ann["ext"]]_vars

\* C30: the Update of the metadata write keeps the annotations and labels
\* of the remote copy that the reconciled object does not have, takes the
\* reconciled object's value for every key it has, and replaces the
\* finalizers by the reconciled object's list; the UpdateStatus replaces
\* the status by the reconciled object's status and nothing else.
Additive(remote, local, written) ==
    /\ DOMAIN written = DOMAIN remote \cup DOMAIN local
    /\ \A x \in DOMAIN local : written[x] = local[x]
    /\ \A x \in DOMAIN remote \ DOMAIN local : written[x] = remote[x]

C30_Step(w) ==
    LET remote == store[key[w]]
        written == store'[key[w]]
    IN  /\ Written(w, "metaPut") =>
               /\ Additive(remote.ann, cur[w].ann, written.ann)
               /\ Additive(remote.lab, cur[w].lab, written.lab)
               /\ written.fin = cur[w].fin
               /\ written.status = remote.status /\ written.spec = remote.spec
        /\ Written(w, "statusPut") =>
               /\ written.status = cur[w].status
               /\ written = [remote EXCEPT !.status = cur[w].status]

PutOf(at) == IF at = "metaGet" THEN "metaPut" ELSE "statusPut"

C31_Step(w) ==
    LET k == key[w]
    IN  /\ \A at \in {"metaGet", "statusGet"} :
              /\ Leaves(w, at) =>
                     \/ pc'[w] = "handle" /\ err'[w] # Nil
                     \/ /\ pc'[w] = PutOf(at)
                        /\ fresh'[w]
                        /\ latest'[w].spec = store[k].spec
              /\ (pc[w] = PutOf(at) /\ pc'[w] = at) =>
                     /\ ~fresh[w] /\ store[k] # NoObject
                     /\ attempt[w] < RetrySteps
                     /\ attempt'[w] = attempt[w] + 1
                     /\ store' = store
              /\ (pc[w] = PutOf(at) /\ pc'[w] = "handle") =>
                     /\ store' = store
                     /\ HasLink(err'[w], "conflict") =>
                            ~fresh[w] /\ attempt[w] = RetrySteps
                     /\ ~HasLink(err'[w], "conflict") =>
                            \/ HasLink(err'[w], "ordinary")
                            \/ HasLink(err'[w], "notfound")
              /\ Written(w, PutOf(at)) => fresh[w] /\ store'[k] = latest[w]

C31_BoundedAttempts ==
    /\ [](\A w \in Workers : attempt[w] \in 0..RetrySteps)
    /\ [][\A w \in Workers : C31_Step(w)]_vars

\* The Update of the last attempt met a conflict and the persister
\* returned it.
C31_Witness ==
    \E w \in Workers :
        /\ pc[w] = "handle" /\ ret[w] = "nil"
        /\ HasLink(err[w], "conflict")
        /\ attempt[w] = RetrySteps
        /\ wrote[w] = {"Update"}

FetchFailed(w) == key[w] # NoKey /\ ret[w] = "none" /\ err[w] # Nil

C33_Step(w) ==
    LET k == key[w]
    IN  /\ (Leaves(w, "fetch") /\ store[k] = NoObject) =>
               /\ pc'[w] = "handle" /\ FetchFailed(w)'
               /\ HasLink(err'[w], "notfound")
        /\ (Leaves(w, "fetch") /\ FetchFailed(w)') =>
               /\ pc'[w] = "handle"
               /\ cur'[w] = NoObject /\ wrote'[w] = {}
               /\ store' = store
               /\ IsPermanentError(err'[w]) = "false"
               /\ IsRequeueError(err'[w]) = "false"
               /\ GetRequeueDuration(err'[w]) = 0
        /\ (FetchFailed(w) /\ Leaves(w, "handle")) =>
               IF NumRequeues(queue, k) < RetryCeiling
               THEN /\ calls'[w] = <<"AddRateLimited">>
                    /\ NumRequeues(queue', k) = NumRequeues(queue, k) + 1
                    /\ k \in queue'.waiting
               ELSE /\ calls'[w] = <<"Forget">>
                    /\ NumRequeues(queue', k) = 0
                    /\ queue'.waiting = queue.waiting
                    /\ queue'.dirty = queue.dirty

C34_SameOwnerKeys ==
    requested.called =>
        enqueueOwners(EmptyQueue, requested.obj, OwnerGVK,
                      requested.isController).dirty
            = {requested.keys[i] : i \in 1..Len(requested.keys)}

\* C35: a write is issued only for a zone the differ marked changed.  The
\* cycle goes to the metadata write exactly when the finalizers, annotations
\* or labels of the reconciled object differ from the snapshot, to the
\* status write exactly when the status differs, and a cycle that changed
\* nothing or only the spec ends with no write and no further fetch.
C35_Step ==
    \A w \in Workers :
        /\ (pc[w] = "fetch" /\ pc'[w] \notin {"fetch", "handle"}) =>
              LET snapshot == store[key[w]]
                  meta == \/ snapshot.fin # cur'[w].fin
                          \/ snapshot.ann # cur'[w].ann
                          \/ snapshot.lab # cur'[w].lab
                  status == snapshot.status # cur'[w].status
              IN  /\ chg'[w].meta = meta
                  /\ chg'[w].status = status
                  /\ pc'[w] = IF meta THEN "metaGet"
                              ELSE IF status THEN "statusGet" ELSE "forget"
        /\ pc'[w] \in {"metaGet", "metaPut"} => chg'[w].meta
        /\ pc'[w] \in {"statusGet", "statusPut"} => chg'[w].status
        /\ "Update" \in wrote'[w] => chg'[w].meta
        /\ "UpdateStatus" \in wrote'[w] => chg'[w].status
        /\ (pc[w] # "forget" /\ pc'[w] = "forget") =>
              wrote'[w] = (IF chg'[w].meta THEN {"Update"} ELSE {})
                          \cup (IF chg'[w].status THEN {"UpdateStatus"} ELSE {})

C36_Step ==
    /\ \A w \in Workers :
          /\ (chg'[w].meta /\ pc[w] # "statusGet" /\ pc'[w] = "statusGet") =>
                /\ pc[w] \in {"metaPut", "statusPut"}
                /\ "Update" \in wrote'[w]
                /\ err'[w] = Nil
                /\ pc[w] = "metaPut" => store'[key[w]] = Stored(latest[w])
          /\ (pc[w] \in {"metaGet", "metaPut"} /\ pc'[w] = "handle") =>
                /\ "UpdateStatus" \notin wrote'[w]
                /\ store'[key[w]] = store[key[w]]
          /\ pc[w] \in {"handle", "done", "select"} => wrote'[w] \subseteq wrote[w]
    /\ store'["ns/a"].status # store["ns/a"].status =>
          \E w \in Workers :
              /\ pc[w] = "statusPut"
              /\ err[w] = Nil
              /\ chg[w].meta => "Update" \in wrote[w]

C36_MetadataBeforeStatus == [][C36_Step]_vars

C36_Witness ==
    \E w \in Workers :
        /\ pc[w] = "handle"
        /\ chg[w].meta /\ chg[w].status
        /\ wrote[w] = {"Update"}
        /\ err[w] # Nil
        /\ "own" \notin DOMAIN store[key[w]].ann
        /\ store[key[w]].status # cur[w].status

\* C37: the retry ceiling counts ordinary failures only.  The requeue of a
\* cycle that ended in an immediate-requeue outcome leaves the count that
\* the ceiling test reads, NumRequeues, as it was, and a key whose cycle
\* ended in an ordinary error is dropped with Forget only when that count
\* has reached the ceiling.
C37_Step ==
    \A w \in Workers :
        (pc[w] = "handle" /\ pc'[w] = "done") =>
            LET call == handleProcessError(queue, key[w], err[w])
                immediate == errorsIs(err[w], RequeueImmediately, 0) = "true"
            IN  /\ (call = "AddRateLimited" /\ immediate) =>
                      NumRequeues(queue', key[w]) = NumRequeues(queue, key[w])
                /\ (call = "Forget" /\ IsPermanentError(err[w]) # "true") =>
                      NumRequeues(queue, key[w]) >= RetryCeiling

C37_CeilingCountsOrdinaryOnly == [][C37_Step]_vars

\* C38: Run returns a non-nil error only when watching an owned type
\* fails, and then no worker was started.  A primary informer that fails
\* to start does not end Run: the workers are still started, and Run
\* returns nil, once the context is cancelled, with the queue shut down.
C38_Returned ==
    /\ run.result = "err" =>
          /\ ~started
          /\ \A w \in Workers : pc[w] = "unstarted"
          /\ queue.shuttingDown
    /\ run.result = "nil" => started /\ cancelled /\ queue.shuttingDown
    /\ (started /\ ~cancelled) => run.result = "none"

C38_RunResult ==
    /\ []C38_Returned
    /\ (run.informer = "failed") ~> (started \/ run.result = "err")
    /\ (run.informer = "failed" /\ started /\ cancelled) ~> (run.result = "nil")

C38_Witness ==
    /\ run = [informer |-> "failed", result |-> "nil"]
    /\ ~watch.on
    /\ queue.shuttingDown
    /\ \A w \in Workers : pc[w] = "exited"

\* C39: with no other writer and a reconciler that is a fixed point on its
\* own output, under fair scheduling the system reaches a state it stays
\* in, in which no notification is outstanding, the queue holds no key in
\* any of its sets, and every worker is blocked in Get; no write follows.
Quiescent ==
    /\ \A k \in Keys : Quiesced(k)
    /\ \A w \in Running : pc[w] = "idle"

C39_Convergence == <>[]Quiescent

C39_Witness ==
    /\ started
    /\ Quiescent
    /\ \A k \in Keys :
          /\ "own" \in DOMAIN store[k].ann
          /\ store[k].status # NewObject.status
          /\ queue.failures[k] = 0

====
